---- MODULE Spec2Model ----
(***************************************************************************)
(* Admission control of the Discord MCP gateway: the sliding-window        *)
(* RateLimiter (utils/security.ts), the HMAC signature check, the          *)
(* middleware chain of server.ts with the route-level middleware of the    *)
(* routers, the interactionCreate listener and the component builders of   *)
(* DiscordService, the component-message routes, validateComponentsV2,     *)
(* the start of the process, the sends of the webhook routes, the          *)
(* route-level rate limiters, the connection of a DiscordService, the      *)
(* graceful shutdown and the bulk role creation.                           *)
(***************************************************************************)
EXTENDS Integers, Sequences, FiniteSets, TLC

VARIABLES
    now,        \* Date.now(), in abstract clock units
    requests,   \* RateLimiter.requests : identifier -> timestamps (absent = <<>>)
    lastCall,   \* the last RateLimiter call: identifier, time, return value, table before
    denied,     \* history: per identifier, whether its latest isAllowed call returned false
    inWindow,   \* history: per identifier, the admitted timestamps still in (now - windowMs, now]
    hm,         \* one signing and verification of a webhook payload
    nodeEnv,    \* env.NODE_ENV
    allowedIPs, \* adminIPWhitelist as configured
    req,        \* the request being handled
    pc,         \* the middleware that handles it next
    trace,      \* the middleware that have handled it, in order
    res,        \* the response sent for it (status 0: none yet)
    seen,       \* history: the hit counts the two express-rate-limit pools decided on
    platformCalled, \* whether the route handler called the platform for it
    globalHits,     \* store of globalLimiter: key -> hits in the current window
    endpointHits,   \* stores of the endpointRateLimit instances
    globalPassed,   \* history: per address, requests globalLimiter passed on in the current window
    arrivals,       \* number of requests received
    interaction,    \* the interaction object the gateway client emitted (kind, replied, deferred)
    ipc,            \* position of the interactionCreate listener for it
    elapsed,        \* seconds since the platform created the interaction
    platform,       \* history: the replies the platform received for it
    logged,         \* whether the listener logged an error for it
    events,         \* number of interactions received
    stats,          \* the ComponentsV2Stats handed to validateComponentsV2
    verdict,        \* what validateComponentsV2 did with them ("none": not called yet)
    msg,            \* the component-message request being handled
    mpc,            \* the middleware or handler of its router that handles it next
    mres,           \* the response sent for it (status 0: none yet)
    forwarded,      \* what the handler sent to the platform for it
    serverReady,    \* isReady of the DiscordService instance of server.ts
    enableV2,       \* process.env.ENABLE_COMPONENTS_V2 ("" when it is not set)
    componentsRequests, \* RateLimiter.requests of the components router
    msgs,           \* number of component-message requests received
    senv,           \* process.env as the process was started with it
    spc,            \* how far the start of server.ts has come
    listening,      \* whether the HTTP server listens
    loggedIn,       \* whether the login to the platform has succeeded
    validations,    \* how many times validateSecurityRequirements has run
    served,         \* number of requests served
    sendq,          \* the sends to the platform of the webhook routes, per request
    pools,          \* RateLimiter.requests of the rateLimiter of each router module
    pending,        \* the admitted requests whose handler has not answered yet
    lastMw,         \* the last run of a rateLimitMiddleware, and the tables before it
    admits,         \* history: per router and identifier, the times of the admissions
    services,       \* the DiscordService instances constructed
    lastOp,         \* the last operation called on one of them, and what it did
    proc,           \* the server process from listening to its exit
    bulk            \* the POST /roles/bulk-create request being handled

rlVars == <<now, requests, lastCall, denied, inWindow>>
hmVars == <<hm>>
cfgVars == <<nodeEnv, allowedIPs>>
reqVars == <<req, pc, trace, res, seen, platformCalled, arrivals>>
poolVars == <<globalHits, endpointHits, globalPassed>>
httpVars == <<cfgVars, reqVars, poolVars>>
ixVars == <<interaction, ipc, elapsed, platform, logged, events>>
cvVars == <<stats, verdict>>
msgVars == <<msg, mpc, mres, forwarded, serverReady, enableV2, componentsRequests, msgs>>
startVars == <<senv, spc, listening, loggedIn, validations, served>>
sendVars == <<sendq>>
grpVars == <<pools, pending, lastMw, admits>>
connVars == <<services, lastOp>>
downVars == <<proc>>
bulkVars == <<bulk>>
extVars == <<sendVars, grpVars, connVars, downVars, bulkVars>>
svcVars == <<ixVars, cvVars, msgVars, startVars, extVars>>
\* what the interaction listener leaves alone
ixOthers == <<rlVars, hmVars, httpVars, cvVars, msgVars, startVars, extVars>>
\* what validateComponentsV2 leaves alone
cvOthers == <<rlVars, hmVars, httpVars, ixVars, msgVars, startVars, extVars>>
\* what the component-message routes leave alone, their RateLimiter tables apart
msgOthers == <<now, lastCall, denied, inWindow, hmVars, httpVars, ixVars, cvVars, startVars,
              extVars>>
\* what the start of the process leaves alone
startOthers == <<rlVars, hmVars, httpVars, ixVars, cvVars, msgVars, extVars>>
vars == <<rlVars, hmVars, httpVars, svcVars>>

(***************************************************************************)
(* Bounds of the model.                                                    *)
(***************************************************************************)
\* RateLimiter.windowMs, scaled to clock units
WindowMs == 3
\* RateLimiter.maxRequests, scaled
MaxRequests == 2
\* the clock stops advancing here
MaxTime == 6

Identifiers == {"127.0.0.1", "10.0.0.9"}

NoCall == [id |-> "none", at |-> 0, ret |-> FALSE, wasDenied |-> FALSE,
           before |-> [i \in Identifiers |-> <<>>]]

\* no signing in progress
HmIdle == [pc |-> "off", signed |-> "", payload |-> "", secret |-> "",
           signature |-> <<>>, altered |-> "no", ok |-> FALSE]

(***************************************************************************)
(* Requests and configuration of the HTTP server (server.ts)               *)
(***************************************************************************)
\* rateLimitMax of the active profile, scaled (50 to 1000 in the source)
GlobalMax == 2
\* max of an endpointRateLimit instance, scaled (10 and 50 in the source)
EndpointMax == 1
\* the server receives at most this many requests
MaxArrivals == 3

\* env.MAX_WEBHOOK_PAYLOAD_SIZE (default)
MAX_WEBHOOK_PAYLOAD_SIZE == 1048576

\* req.ip: the first is on adminIPWhitelist, the second is not
IPs == Identifiers
\* req.get('User-Agent') || 'unknown'
UserAgents == {"curl/8.0", "unknown"}
\* the endpoints that own an endpointRateLimit instance
Endpoints == {"/api/status", "/api/webhook/send"}
Paths == {"/api/status", "/api/admin/users", "/api/webhook/send", "/api/webhook/test"}

GlobalKeys == IPs \X UserAgents
EndpointKeys == IPs \X Endpoints

NoReq == [ip |-> "", ua |-> "", path |-> "", contentLength |-> 0, bodyLength |-> 0,
          apiKey |-> "", signature |-> <<>>]
NoRes == [status |-> 0, error |-> ""]
NotSeen == [global |-> 0, endpoint |-> 0, skipped |-> FALSE]

\* the HTTP server is not part of the run
HttpOff ==
    /\ nodeEnv = "production"
    /\ allowedIPs = {}
    /\ req = NoReq
    /\ pc = "off"
    /\ trace = <<>>
    /\ res = NoRes
    /\ seen = NotSeen
    /\ platformCalled = FALSE
    /\ globalHits = [k \in GlobalKeys |-> 0]
    /\ endpointHits = [k \in EndpointKeys |-> 0]
    /\ globalPassed = [i \in IPs |-> 0]
    /\ arrivals = 0

\* no interaction in flight
NoInteraction == [kind |-> "none", replied |-> FALSE, deferred |-> FALSE]
\* the platform has received nothing for the interaction
NoPlatform == [replies |-> <<>>, acked |-> FALSE, ackedAt |-> 0]

\* the gateway client is not part of the run
IxOff ==
    /\ interaction = NoInteraction
    /\ ipc = "off"
    /\ elapsed = 0
    /\ platform = NoPlatform
    /\ logged = FALSE
    /\ events = 0

\* validateComponentsV2 is not part of the run
NoStats == [componentCount |-> 0, textDisplayChars |-> 0, mediaGalleryItems |-> 0]

CvOff ==
    /\ stats = NoStats
    /\ verdict = "off"

\* no component-message request is being handled
NoMsg == [path |-> "none", ip |-> "none", signature |-> <<>>, target |-> "missing",
          platformOk |-> FALSE,
          messageData |-> [content |-> <<>>, username |-> <<>>,
                           containers |-> <<>>, components |-> <<>>]]
NoMres == [status |-> 0, error |-> "", connected |-> FALSE]
NoPayload == [sent |-> FALSE, content |-> <<>>, username |-> <<>>, components |-> <<>>]

\* the component-message routes are not part of the run
MsgOff ==
    /\ msg = NoMsg
    /\ mpc = "off"
    /\ mres = NoMres
    /\ forwarded = NoPayload
    /\ serverReady = FALSE
    /\ enableV2 = ""
    /\ componentsRequests = [i \in Identifiers |-> <<>>]
    /\ msgs = 0

\* an environment with which the process starts and serves
NoEnv == [nodeEnv |-> "test", apiKeyLength |-> 16, secretLength |-> 32,
          encryptionKeyLength |-> 32, token |-> TRUE, host |-> "127.0.0.1",
          logLevel |-> "info"]

\* the start of the process is not part of the run
StartOff ==
    /\ senv = NoEnv
    /\ spc = "off"
    /\ listening = FALSE
    /\ loggedIn = FALSE
    /\ validations = 0
    /\ served = 0

\* no send of a webhook route is being followed
SendOff == sendq = <<>>

\* the routers that create a RateLimiter of their own
Groups == {"webhook", "channels", "roles", "server", "components"}

NoMw == [seq |-> 0, group |-> "none", ip |-> "none", at |-> 0, allowed |-> FALSE,
         status |-> 0, remaining |-> -1]

\* the route-level rate limiters are not part of the run
GrpOff ==
    /\ pools = <<>>
    /\ pending = 0
    /\ lastMw = NoMw
    /\ admits = <<>>

NoOp == [seq |-> 0, service |-> 0, op |-> "none", wasReady |-> FALSE, error |-> "", calls |-> 0]

\* no DiscordService instance is followed
ConnOff ==
    /\ services = <<>>
    /\ lastOp = NoOp

NoProc == [version |-> "none", login |-> "none", pc |-> "off", signal |-> "none",
           conns |-> 0, elapsed |-> 0, logoutCalled |-> FALSE, logoutThrew |-> FALSE,
           closeCalled |-> FALSE, serverClosed |-> FALSE, timerFired |-> FALSE,
           exitCode |-> -1]

\* the shutdown of the process is not followed
DownOff == proc = NoProc

NoBulk == [pc |-> "off", flag |-> "", guildId |-> "missing", roles |-> <<>>, next |-> 1,
           createdRoles |-> <<>>, attempted |-> <<>>, onPlatform |-> <<>>,
           status |-> 0, error |-> ""]

\* no bulk role creation is followed
BulkOff == bulk = NoBulk

ExtOff ==
    /\ SendOff
    /\ GrpOff
    /\ ConnOff
    /\ DownOff
    /\ BulkOff

SvcOff ==
    /\ IxOff
    /\ CvOff
    /\ MsgOff
    /\ StartOff
    /\ ExtOff

(***************************************************************************)
(* RateLimiter (utils/security.ts)                                         *)
(***************************************************************************)
\* mutant: the boundary timestamp (now - time = windowMs) is kept
validRequestsInclusive(userRequests, t) ==
    SelectSeq(userRequests, LAMBDA time : t - time <= WindowMs)

\* mutant: nothing is removed from the record
validRequestsNoPrune(userRequests, t) == userRequests

\* userRequests.filter(time => now - time < this.windowMs)
validRequests(userRequests, t) ==
    SelectSeq(userRequests, LAMBDA time : t - time < WindowMs)

\* mutant: the limit test is off by one
limitReachedOffByOne(valid) == Len(valid) > MaxRequests

\* validRequests.length >= this.maxRequests
limitReached(valid) == Len(valid) >= MaxRequests

\* mutant: a denied attempt is recorded too
isAllowedTableRecordDenied(table, identifier, t) ==
    [table EXCEPT ![identifier] = Append(validRequests(table[identifier], t), t)]

\* mutant: the write of a check that read the record before an earlier write
\* to it: the timestamps of the earlier admissions are lost
isAllowedTableLostUpdate(table, identifier, t) ==
    [table EXCEPT ![identifier] = <<t>>]

\* the Map after isAllowed(identifier) at time t
isAllowedTable(table, identifier, t) ==
    LET valid == validRequests(table[identifier], t)
    IN  IF limitReached(valid)
        THEN table
        ELSE [table EXCEPT ![identifier] = Append(valid, t)]

\* getRemainingRequests(identifier) at time t
getRemainingRequests(table, identifier, t) ==
    LET valid == validRequests(table[identifier], t)
        left == MaxRequests - Len(valid)
    IN  IF left > 0 THEN left ELSE 0

\* the value isAllowed(identifier) returns at time t
isAllowedRet(table, identifier, t) ==
    ~limitReached(validRequests(table[identifier], t))

\* one call of rateLimiter.isAllowed(identifier)
IsAllowed(identifier) ==
    /\ requests' = isAllowedTable(requests, identifier, now)
    /\ lastCall' = [id |-> identifier, at |-> now,
                    ret |-> isAllowedRet(requests, identifier, now),
                    wasDenied |-> denied[identifier],
                    before |-> requests]
    /\ denied' = [denied EXCEPT ![identifier] = ~isAllowedRet(requests, identifier, now)]
    /\ inWindow' = IF isAllowedRet(requests, identifier, now)
                   THEN [inWindow EXCEPT ![identifier] = Append(@, now)]
                   ELSE inWindow
    /\ UNCHANGED <<now, hmVars, svcVars, httpVars>>

\* the clock advances; the history drops what left the trailing window
Tick ==
    /\ now < MaxTime
    /\ now' = now + 1
    /\ inWindow' = [i \in Identifiers |->
                      SelectSeq(inWindow[i], LAMBDA time : time > now + 1 - WindowMs)]
    /\ UNCHANGED <<requests, lastCall, denied, hmVars, svcVars, httpVars>>

InitLimiter ==
    /\ now = 0
    /\ requests = [i \in Identifiers |-> <<>>]
    /\ lastCall = NoCall
    /\ denied = [i \in Identifiers |-> FALSE]
    /\ inWindow = [i \in Identifiers |-> <<>>]

InitRL ==
    /\ InitLimiter
    /\ hm = HmIdle
    /\ HttpOff
    /\ SvcOff

NextRL ==
    \/ Tick
    \/ \E identifier \in Identifiers : IsAllowed(identifier)

SpecRL == InitRL /\ [][NextRL]_vars

(***************************************************************************)
(* Properties of the RateLimiter, checked under SpecRL.                    *)
(***************************************************************************)
\* the timestamps of s that lie in the trailing window (t - WindowMs, t]
RECURSIVE InTrailingWindow(_, _)
InTrailingWindow(s, t) ==
    IF s = <<>> THEN <<>>
    ELSE IF Head(s) > t - WindowMs
         THEN <<Head(s)>> \o InTrailingWindow(Tail(s), t)
         ELSE InTrailingWindow(Tail(s), t)

\* C1: for every identifier the number of admitted requests whose timestamps
\* lie in the trailing window (now - windowMs, now] never exceeds maxRequests,
\* and a call is denied only when exactly maxRequests admitted requests are
\* in that window (the request that would be number maxRequests+1).
C1_SlidingWindowBound ==
    /\ \A i \in Identifiers : Len(inWindow[i]) <= MaxRequests
    /\ (lastCall.id # "none" /\ lastCall.at = now) =>
          /\ ~lastCall.ret => Len(inWindow[lastCall.id]) = MaxRequests
          /\ lastCall.ret => Len(InTrailingWindow(lastCall.before[lastCall.id], now)) < MaxRequests

\* a burst of maxRequests was admitted at one instant and the next call is denied
C1_Witness ==
    /\ lastCall.id # "none" /\ lastCall.at = now /\ ~lastCall.ret
    /\ Len(inWindow[lastCall.id]) = MaxRequests
    /\ \A k \in 1..MaxRequests : inWindow[lastCall.id][k] = now

\* C2: each isAllowed call prunes the identifier's timestamps outside the
\* window; if at least maxRequests remain it returns false and the stored
\* table is left exactly as it was; otherwise it stores the pruned record
\* with now appended and returns true, leaving other identifiers untouched.
C2_ReferenceOperator ==
    lastCall.id # "none" =>
        LET pruned == InTrailingWindow(lastCall.before[lastCall.id], lastCall.at)
        IN  IF Len(pruned) >= MaxRequests
            THEN /\ ~lastCall.ret
                 /\ requests = lastCall.before
            ELSE /\ lastCall.ret
                 /\ requests[lastCall.id] = pruned \o <<lastCall.at>>
                 /\ \A i \in Identifiers \ {lastCall.id} :
                        requests[i] = lastCall.before[i]

\* a denied call made after an earlier denial: the table still holds only the
\* admitted timestamps, one of which is older than the denied attempts
C2_Witness ==
    /\ lastCall.id # "none" /\ ~lastCall.ret /\ lastCall.wasDenied
    /\ requests = lastCall.before
    /\ Len(requests[lastCall.id]) = MaxRequests
    /\ requests[lastCall.id][1] < lastCall.at

\* C3: a call made once the identifier's earliest recorded timestamp is no
\* longer inside the window (now - earliest >= windowMs) is admitted, also
\* right after a denial and with no other action in between.
C3_RecoveryAfterDenial ==
    (/\ lastCall.id # "none"
     /\ lastCall.before[lastCall.id] # <<>>
     /\ lastCall.at - lastCall.before[lastCall.id][1] >= WindowMs)
    => lastCall.ret

\* a full window, a denial, and the admission at the instant the earliest
\* timestamp leaves the window
C3_Witness ==
    /\ lastCall.id # "none" /\ lastCall.ret /\ lastCall.wasDenied
    /\ Len(lastCall.before[lastCall.id]) = MaxRequests
    /\ lastCall.at - lastCall.before[lastCall.id][1] = WindowMs

(***************************************************************************)
(* verifyWebhookSignature (utils/security.ts)                              *)
(***************************************************************************)
\* bytes of a digest in the model (SHA-256 has 32)
DigestBytes == 2

Payloads == <<"{\"a\":1}", "{\"a\":2}", "{\"b\":1}">>
Secrets == <<"secret-A", "secret-B">>

IndexOf(seq, x) == CHOOSE k \in 1..Len(seq) : seq[k] = x

LowerHex == <<"0","1","2","3","4","5","6","7","8","9","a","b","c","d","e","f">>
UpperHex == <<"0","1","2","3","4","5","6","7","8","9","A","B","C","D","E","F">>

\* crypto.createHmac('sha256', secret).update(payload).digest(): an idealised
\* keyed hash, different for different (secret, payload)
createHmac(secret, payload) ==
    [k \in 1..DigestBytes |->
        (37 * (IndexOf(Secrets, secret) * Len(Payloads) + IndexOf(Payloads, payload))
           + 101 * k) % 256]

\* .digest('hex'): two lower-case hex characters per byte
RECURSIVE digestHex(_)
digestHex(bytes) ==
    IF bytes = <<>> THEN <<>>
    ELSE <<LowerHex[(Head(bytes) \div 16) + 1], LowerHex[(Head(bytes) % 16) + 1]>>
           \o digestHex(Tail(bytes))

\* the value of one hex character, -1 when it is none
hexValue(c) ==
    IF \E k \in 1..16 : LowerHex[k] = c THEN IndexOf(LowerHex, c) - 1
    ELSE IF \E k \in 1..16 : UpperHex[k] = c THEN IndexOf(UpperHex, c) - 1
    ELSE -1

\* Buffer.from(str, 'hex'): decodes pairs of hex characters and stops at the
\* first pair that is not hex; a trailing single character is dropped
RECURSIVE bufferFromHex(_)
bufferFromHex(str) ==
    IF Len(str) < 2 THEN <<>>
    ELSE IF hexValue(str[1]) < 0 \/ hexValue(str[2]) < 0 THEN <<>>
    ELSE <<16 * hexValue(str[1]) + hexValue(str[2])>>
           \o bufferFromHex(SubSeq(str, 3, Len(str)))

\* mutant: only the lengths of the buffers are compared
timingSafeEqualLengthOnly(a, b) == Len(a) = Len(b)

\* crypto.timingSafeEqual inside try/catch: buffers of different byte length
\* throw, which the catch turns into false
timingSafeEqual(a, b) ==
    IF Len(a) # Len(b) THEN FALSE ELSE a = b

expectedSignature(payload, secret) == digestHex(createHmac(secret, payload))

verifyWebhookSignature(payload, signature, secret) ==
    timingSafeEqual(bufferFromHex(signature),
                    bufferFromHex(expectedSignature(payload, secret)))

\* the caller's side: hex HMAC-SHA256 of the payload under the shared secret
sign(payload, secret) == digestHex(createHmac(secret, payload))

\* what a sender or an attacker may do to a signature before sending it
Alterations == {"upper", "suffix", "truncate", "flip"}

alter(signature, how) ==
    CASE how = "upper" ->
           [k \in 1..Len(signature) |->
              IF hexValue(signature[k]) >= 0
              THEN UpperHex[hexValue(signature[k]) + 1] ELSE signature[k]]
      [] how = "suffix" -> signature \o <<"z", "z">>
      [] how = "truncate" -> SubSeq(signature, 1, Len(signature) - 2)
      [] how = "flip" ->
           [signature EXCEPT ![1] = LowerHex[((hexValue(signature[1]) + 1) % 16) + 1]]

HmSign ==
    /\ hm.pc = "start"
    /\ hm' = [hm EXCEPT !.pc = "signed", !.signature = sign(hm.signed, hm.secret)]
    /\ UNCHANGED <<rlVars, httpVars, svcVars>>

HmAlter(how) ==
    /\ hm.pc = "signed"
    /\ hm' = [hm EXCEPT !.pc = "altered", !.altered = how,
                        !.signature = alter(hm.signature, how)]
    /\ UNCHANGED <<rlVars, httpVars, svcVars>>

HmVerify ==
    /\ hm.pc \in {"signed", "altered"}
    /\ hm' = [hm EXCEPT !.pc = "verified",
                  !.ok = verifyWebhookSignature(hm.payload, hm.signature, hm.secret)]
    /\ UNCHANGED <<rlVars, httpVars, svcVars>>

InitHmac ==
    /\ InitLimiter
    /\ HttpOff
    /\ SvcOff
    /\ \E p \in 1..Len(Payloads), q \in 1..Len(Payloads), s \in 1..Len(Secrets) :
         hm = [HmIdle EXCEPT !.pc = "start", !.signed = Payloads[p],
                             !.payload = Payloads[q], !.secret = Secrets[s]]

NextHmac ==
    \/ HmSign
    \/ \E how \in Alterations : HmAlter(how)
    \/ HmVerify

SpecHmac == InitHmac /\ [][NextHmac]_vars

\* C8: verifying a payload against the signature made for it under the same
\* secret succeeds, and verifying any different payload against that
\* signature fails.
C8_HmacRoundTrip ==
    (hm.pc = "verified" /\ hm.altered = "no") =>
        (hm.ok <=> hm.payload = hm.signed)

\* a payload different from the signed one was verified against the
\* signature and refused
C8_Witness ==
    /\ hm.pc = "verified" /\ hm.altered = "no"
    /\ hm.signature = expectedSignature(hm.signed, hm.secret)
    /\ hm.payload # hm.signed
    /\ ~hm.ok

(***************************************************************************)
(* Security profiles (config/security.config.ts)                           *)
(***************************************************************************)
getSecurityLevel(e) ==
    CASE e = "development" -> "medium"
      [] e = "test" -> "low"
      [] e = "production" -> "maximum"
      [] OTHER -> "high"

\* securityConfig[level]; rateLimitMax is scaled to GlobalMax
securityConfig(level) ==
    CASE level = "low" ->
           [rateLimitMax |-> GlobalMax, requestSizeLimit |-> 10485760,
            requireApiKey |-> FALSE, requireWebhookSignature |-> FALSE,
            allowedOrigins |-> {"*"}]
      [] level = "medium" ->
           [rateLimitMax |-> GlobalMax, requestSizeLimit |-> 5242880,
            requireApiKey |-> TRUE, requireWebhookSignature |-> TRUE,
            allowedOrigins |-> {"http://localhost:3000", "http://localhost:8080"}]
      [] level = "high" ->
           [rateLimitMax |-> GlobalMax, requestSizeLimit |-> 2097152,
            requireApiKey |-> TRUE, requireWebhookSignature |-> TRUE,
            allowedOrigins |-> {"https://yourdomain.com"}]
      [] level = "maximum" ->
           [rateLimitMax |-> GlobalMax, requestSizeLimit |-> 1048576,
            requireApiKey |-> TRUE, requireWebhookSignature |-> TRUE,
            allowedOrigins |-> {}]

getSecurityConfig == securityConfig(getSecurityLevel(nodeEnv))

adminIPWhitelist == {"127.0.0.1", "::1"}

\* process.env: lengths of the secrets (0: not set), presence of the platform
\* token; DISCORD_CLIENT_ID and DISCORD_CLIENT_SECRET are set
EnvInputs ==
    [nodeEnv : {"development", "test", "production"},
     apiKeyLength : {0, 15, 16},
     secretLength : {0, 31, 32},
     encryptionKeyLength : {31, 32, 33},
     token : BOOLEAN,
     host : {"0.0.0.0", "127.0.0.1"},
     logLevel : {"warn", "info", "debug"}]

\* envSchema.safeParse(process.env).success
envSchemaParse(e) ==
    /\ e.token
    /\ e.secretLength >= 32
    /\ e.apiKeyLength >= 16
    /\ e.encryptionKeyLength = 32

\* mutant: the validation reports nothing
validateSecurityRequirementsNone(e) == {}

\* validateSecurityRequirements().errors
validateSecurityRequirements(e) ==
    LET config == securityConfig(getSecurityLevel(e.nodeEnv))
    IN  (IF config.requireApiKey /\ e.apiKeyLength < 16
         THEN {"API key is required and must be at least 16 characters"} ELSE {})
        \cup
        (IF config.requireWebhookSignature /\ e.secretLength < 32
         THEN {"Webhook secret is required and must be at least 32 characters"} ELSE {})
        \cup
        (IF e.encryptionKeyLength # 32
         THEN {"Encryption key is required and must be exactly 32 characters"} ELSE {})
        \cup
        (IF ~e.token THEN {"Discord token is required"} ELSE {})
        \cup
        (IF e.nodeEnv = "production" /\ e.host = "0.0.0.0"
         THEN {"In production, avoid binding to 0.0.0.0 for security"} ELSE {})
        \cup
        (IF e.nodeEnv = "production" /\ e.logLevel = "debug"
         THEN {"Debug logging should be disabled in production"} ELSE {})
        \cup
        (IF e.nodeEnv = "production" /\ config.allowedOrigins = {}
         THEN {"CORS origins must be specified in production"} ELSE {})

\* the values of NODE_ENV with which the process gets as far as serving
ServingEnvs ==
    {e.nodeEnv : e \in {x \in EnvInputs :
                            envSchemaParse(x) /\ validateSecurityRequirements(x) = {}}}


\* env.API_KEY and env.WEBHOOK_SECRET
API_KEY == "0123456789abcdef"
WEBHOOK_SECRET == Secrets[1]

(***************************************************************************)
(* Inbound requests                                                        *)
(***************************************************************************)
\* JSON.stringify(req.body) of the body every modelled request carries
RequestPayload == Payloads[1]

\* Content-Length header (0: none, a chunked body) and the bytes of the body
Sizes == {[contentLength |-> 100, bodyLength |-> 100],
          [contentLength |-> 2000000, bodyLength |-> 2000000],
          [contentLength |-> 0, bodyLength |-> 2000000]}

ValidSignature == sign(RequestPayload, WEBHOOK_SECRET)

\* X-API-Key and X-Webhook-Signature (<<>>: no header). A header that no
\* middleware on the path reads takes the values "absent" and "valid" only.
Credentials(path) ==
    CASE path = "/api/status" ->
           {[apiKey |-> k, signature |-> <<>>] : k \in {"", API_KEY, "wrong-key-wrong-key"}}
      [] path = "/api/admin/users" ->
           {[apiKey |-> "", signature |-> <<>>],
            [apiKey |-> API_KEY, signature |-> ValidSignature]}
      [] path = "/api/webhook/send" ->
           {[apiKey |-> k, signature |-> g] :
               k \in {"", API_KEY},
               g \in {<<>>, ValidSignature, alter(ValidSignature, "suffix"),
                      alter(ValidSignature, "flip")}}
      [] path = "/api/webhook/test" ->
           {[apiKey |-> k, signature |-> <<>>] : k \in {"", API_KEY}}

\* the requests of Spec: every size and credential, one User-Agent
Requests ==
    UNION {
      {[ip |-> i, ua |-> "curl/8.0", path |-> p,
        contentLength |-> z.contentLength, bodyLength |-> z.bodyLength,
        apiKey |-> c.apiKey, signature |-> c.signature] :
          i \in IPs, z \in Sizes, c \in Credentials(p)}
      : p \in Paths}

\* the requests of SpecPools: small bodies with valid credentials, from every
\* address with every User-Agent
PoolRequests ==
    {[ip |-> i, ua |-> u, path |-> p, contentLength |-> 100, bodyLength |-> 100,
      apiKey |-> API_KEY, signature |-> ValidSignature] :
        i \in IPs, u \in UserAgents, p \in Paths}

(***************************************************************************)
(* Middleware (middleware/security.ts) and mounting (server.ts)            *)
(***************************************************************************)
\* mutant: the pool lets one request too many through
overLimitOffByOne(hits, max) == hits > max + 1

\* express-rate-limit: the request is refused when its key's hit count,
\* this request included, exceeds max
overLimit(hits, max) == hits > max

\* skip: (req) => env.NODE_ENV === 'development' && req.ip === '127.0.0.1'
skip(r) == nodeEnv = "development" /\ r.ip = "127.0.0.1"

\* keyGenerator of createRateLimit: `${req.ip}-${User-Agent || 'unknown'}`
globalKey(r) == <<r.ip, r.ua>>

\* the endpointRateLimit instance mounted in front of the path
endpointOf(path) ==
    IF path = "/api/status" THEN "/api/status" ELSE "/api/webhook/send"

\* keyGenerator of endpointRateLimit: `${req.ip}-${endpoint}`
endpointKey(r) == <<r.ip, endpointOf(r.path)>>

\* mutant: the wildcard entry is not honoured
ipAllowedNoWildcard(list, clientIP) == clientIP \in list

\* allowedIPs.includes(clientIP) || allowedIPs.includes('*')
ipAllowed(list, clientIP) == clientIP \in list \/ "*" \in list

\* mutant: the webhook router verifies the signature before its rate limiter
nextStageAuthFirst(stage, r) ==
    CASE stage = "validateRequestSize" -> "globalLimiter"
      [] stage = "globalLimiter" -> "express.json"
      [] stage = "express.json" ->
           IF r.path = "/api/admin/users" THEN "ipWhitelist" ELSE "endpointRateLimit"
      [] stage = "ipWhitelist" -> "notFound"
      [] stage = "endpointRateLimit" ->
           IF r.path = "/api/status"
           THEN IF getSecurityConfig.requireApiKey THEN "validateApiKey" ELSE "handler"
           ELSE IF r.path = "/api/webhook/send" THEN "verifySignature"
           ELSE "rateLimitMiddleware"
      [] stage = "validateApiKey" -> "handler"
      [] stage = "rateLimitMiddleware" -> "handler"
      [] stage = "verifySignature" -> "rateLimitMiddleware"

\* the middleware that runs after `stage` has called next(), by the order of
\* app.use / app.get in server.ts and of the router's route definitions
nextStage(stage, r) ==
    CASE stage = "validateRequestSize" -> "globalLimiter"
      [] stage = "globalLimiter" -> "express.json"
      [] stage = "express.json" ->
           IF r.path = "/api/admin/users" THEN "ipWhitelist" ELSE "endpointRateLimit"
      [] stage = "ipWhitelist" -> "notFound"
      [] stage = "endpointRateLimit" ->
           IF r.path = "/api/status"
           THEN IF getSecurityConfig.requireApiKey THEN "validateApiKey" ELSE "handler"
           ELSE "rateLimitMiddleware"
      [] stage = "validateApiKey" -> "handler"
      [] stage = "rateLimitMiddleware" ->
           IF r.path = "/api/webhook/send" THEN "verifySignature" ELSE "handler"
      [] stage = "verifySignature" -> "handler"

Reject(stage, status, error) ==
    /\ trace' = Append(trace, stage)
    /\ res' = [status |-> status, error |-> error]
    /\ pc' = "done"

Pass(stage) ==
    /\ trace' = Append(trace, stage)
    /\ pc' = nextStage(stage, req)
    /\ res' = res

\* a request arrives
Arrive(r) ==
    /\ pc = "idle"
    /\ arrivals < MaxArrivals
    /\ arrivals' = arrivals + 1
    /\ req' = r
    /\ pc' = "validateRequestSize"
    /\ trace' = <<>>
    /\ res' = NoRes
    /\ seen' = NotSeen
    /\ platformCalled' = FALSE
    /\ UNCHANGED <<rlVars, hmVars, svcVars, cfgVars, poolVars>>

\* validateRequestSize(securityConfig.requestSizeLimit)
ValidateRequestSize ==
    /\ pc = "validateRequestSize"
    /\ IF req.contentLength > getSecurityConfig.requestSizeLimit
       THEN Reject("validateRequestSize", 413, "Request entity too large")
       ELSE Pass("validateRequestSize")
    /\ UNCHANGED <<rlVars, hmVars, svcVars, cfgVars, poolVars, req, seen, platformCalled, arrivals>>

\* globalLimiter = createRateLimit(rateLimitWindow, rateLimitMax, ...)
GlobalLimiter ==
    /\ pc = "globalLimiter"
    /\ IF skip(req)
       THEN /\ Pass("globalLimiter")
            /\ seen' = [seen EXCEPT !.skipped = TRUE]
            /\ globalPassed' = [globalPassed EXCEPT ![req.ip] = @ + 1]
            /\ UNCHANGED globalHits
       ELSE LET hits == globalHits[globalKey(req)] + 1
            IN  /\ globalHits' = [globalHits EXCEPT ![globalKey(req)] = hits]
                /\ seen' = [seen EXCEPT !.global = hits]
                /\ IF overLimit(hits, getSecurityConfig.rateLimitMax)
                   THEN /\ Reject("globalLimiter", 429, "Too many requests from this IP")
                        /\ UNCHANGED globalPassed
                   ELSE /\ Pass("globalLimiter")
                        /\ globalPassed' = [globalPassed EXCEPT ![req.ip] = @ + 1]
    /\ UNCHANGED <<rlVars, hmVars, svcVars, cfgVars, endpointHits, req, platformCalled, arrivals>>

\* express.json({ limit: env.MAX_WEBHOOK_PAYLOAD_SIZE }): refuses a body whose
\* declared or received length exceeds the limit
ExpressJson ==
    /\ pc = "express.json"
    /\ IF \/ req.contentLength > MAX_WEBHOOK_PAYLOAD_SIZE
          \/ req.bodyLength > MAX_WEBHOOK_PAYLOAD_SIZE
       THEN Reject("express.json", 413, "request entity too large")
       ELSE Pass("express.json")
    /\ UNCHANGED <<rlVars, hmVars, svcVars, cfgVars, poolVars, req, seen, platformCalled, arrivals>>

\* app.use('/api/admin', ipWhitelist(adminIPWhitelist))
IpWhitelist ==
    /\ pc = "ipWhitelist"
    /\ IF ipAllowed(allowedIPs, req.ip)
       THEN Pass("ipWhitelist")
       ELSE Reject("ipWhitelist", 403, "Access denied from this IP address")
    /\ UNCHANGED <<rlVars, hmVars, svcVars, cfgVars, poolVars, req, seen, platformCalled, arrivals>>

\* app.use('*', ...): no route matches
NotFound ==
    /\ pc = "notFound"
    /\ Reject("notFound", 404, "Endpoint not found")
    /\ UNCHANGED <<rlVars, hmVars, svcVars, cfgVars, poolVars, req, seen, platformCalled, arrivals>>

\* endpointRateLimit(endpoint, windowMs, max)
EndpointRateLimit ==
    /\ pc = "endpointRateLimit"
    /\ LET hits == endpointHits[endpointKey(req)] + 1
       IN  /\ endpointHits' = [endpointHits EXCEPT ![endpointKey(req)] = hits]
           /\ seen' = [seen EXCEPT !.endpoint = hits]
           /\ IF overLimit(hits, EndpointMax)
              THEN Reject("endpointRateLimit", 429, "Too many requests to endpoint")
              ELSE Pass("endpointRateLimit")
    /\ UNCHANGED <<rlVars, hmVars, svcVars, cfgVars, globalHits, globalPassed, req,
                   platformCalled, arrivals>>

\* validateApiKey
ValidateApiKey ==
    /\ pc = "validateApiKey"
    /\ IF req.apiKey = ""
       THEN Reject("validateApiKey", 401, "API key required")
       ELSE IF req.apiKey # API_KEY
       THEN Reject("validateApiKey", 401, "Invalid API key")
       ELSE Pass("validateApiKey")
    /\ UNCHANGED <<rlVars, hmVars, svcVars, cfgVars, poolVars, req, seen, platformCalled, arrivals>>

\* rateLimitMiddleware of the webhook router: rateLimiter.isAllowed(req.ip)
RateLimitMiddleware ==
    /\ pc = "rateLimitMiddleware"
    /\ requests' = isAllowedTable(requests, req.ip, now)
    /\ IF ~isAllowedRet(requests, req.ip, now)
       THEN Reject("rateLimitMiddleware", 429, "Rate limit exceeded")
       ELSE Pass("rateLimitMiddleware")
    /\ UNCHANGED <<now, lastCall, denied, inWindow, hmVars, svcVars, cfgVars, poolVars, req, seen,
                   platformCalled, arrivals>>

\* verifySignature of the webhook router
VerifySignature ==
    /\ pc = "verifySignature"
    /\ IF req.signature = <<>>
       THEN Reject("verifySignature", 401, "Missing webhook signature")
       ELSE IF ~verifyWebhookSignature(RequestPayload, req.signature, WEBHOOK_SECRET)
       THEN Reject("verifySignature", 401, "Invalid webhook signature")
       ELSE Pass("verifySignature")
    /\ UNCHANGED <<rlVars, hmVars, svcVars, cfgVars, poolVars, req, seen, platformCalled, arrivals>>

\* the route handlers: GET /api/status, GET /webhook/test, POST /webhook/send
\* (body checks, then DiscordService.sendWebhookMessage, which may fail)
RouteHandler ==
    /\ pc = "handler"
    /\ trace' = Append(trace, "handler")
    /\ pc' = "done"
    /\ IF req.path = "/api/webhook/send"
       THEN \E outcome \in {"missing", "badUrl", "tooLarge", "sent", "failed"} :
              /\ platformCalled' = (outcome \in {"sent", "failed"})
              /\ res' = CASE outcome = "missing" ->
                               [status |-> 400, error |-> "webhookUrl and message are required"]
                          [] outcome = "badUrl" ->
                               [status |-> 400, error |-> "Invalid webhook URL format"]
                          [] outcome = "tooLarge" ->
                               [status |-> 413, error |-> "Payload too large"]
                          [] outcome = "sent" -> [status |-> 200, error |-> ""]
                          [] outcome = "failed" ->
                               [status |-> 500, error |-> "Failed to send webhook"]
       ELSE /\ res' = [status |-> 200, error |-> ""]
            /\ UNCHANGED platformCalled
    /\ UNCHANGED <<rlVars, hmVars, svcVars, cfgVars, poolVars, req, seen, arrivals>>

\* the response has been sent and the request is forgotten
Finish ==
    /\ pc = "done"
    /\ pc' = "idle"
    /\ req' = NoReq
    /\ trace' = <<>>
    /\ res' = NoRes
    /\ seen' = NotSeen
    /\ platformCalled' = FALSE
    /\ UNCHANGED <<rlVars, hmVars, svcVars, cfgVars, poolVars, arrivals>>

\* the window of globalLimiter ends: its store is reset
GlobalWindowReset ==
    /\ pc = "idle"
    /\ \E k \in GlobalKeys : globalHits[k] > 0
    /\ globalHits' = [k \in GlobalKeys |-> 0]
    /\ globalPassed' = [i \in IPs |-> 0]
    /\ UNCHANGED <<rlVars, hmVars, svcVars, cfgVars, reqVars, endpointHits>>

\* the window of one endpointRateLimit instance ends
EndpointWindowReset(e) ==
    /\ pc = "idle"
    /\ \E i \in IPs : endpointHits[<<i, e>>] > 0
    /\ endpointHits' = [k \in EndpointKeys |-> IF k[2] = e THEN 0 ELSE endpointHits[k]]
    /\ UNCHANGED <<rlVars, hmVars, svcVars, cfgVars, reqVars, globalHits, globalPassed>>

Init ==
    /\ InitLimiter
    /\ hm = HmIdle
    /\ SvcOff
    /\ nodeEnv \in ServingEnvs
    /\ allowedIPs \in {adminIPWhitelist, adminIPWhitelist \cup {"*"}}
    /\ req = NoReq
    /\ pc = "idle"
    /\ trace = <<>>
    /\ res = NoRes
    /\ seen = NotSeen
    /\ platformCalled = FALSE
    /\ globalHits = [k \in GlobalKeys |-> 0]
    /\ endpointHits = [k \in EndpointKeys |-> 0]
    /\ globalPassed = [i \in IPs |-> 0]
    /\ arrivals = 0

Next ==
    \/ \E r \in Requests : Arrive(r)
    \/ ValidateRequestSize
    \/ GlobalLimiter
    \/ ExpressJson
    \/ IpWhitelist
    \/ NotFound
    \/ EndpointRateLimit
    \/ ValidateApiKey
    \/ RateLimitMiddleware
    \/ VerifySignature
    \/ RouteHandler
    \/ Finish
    \/ GlobalWindowReset
    \/ \E e \in Endpoints : EndpointWindowReset(e)

Spec == Init /\ [][Next]_vars

NextPools ==
    \/ \E r \in PoolRequests : Arrive(r)
    \/ ValidateRequestSize
    \/ GlobalLimiter
    \/ ExpressJson
    \/ IpWhitelist
    \/ NotFound
    \/ EndpointRateLimit
    \/ ValidateApiKey
    \/ RateLimitMiddleware
    \/ VerifySignature
    \/ RouteHandler
    \/ Finish
    \/ GlobalWindowReset
    \/ \E e \in Endpoints : EndpointWindowReset(e)

SpecPools == Init /\ [][NextPools]_vars

(***************************************************************************)
(* Properties of the admission chain, checked under Spec and SpecPools.    *)
(***************************************************************************)
InTrace(stage) == \E k \in 1..Len(trace) : trace[k] = stage

RateLimitedPaths == {"/api/status", "/api/webhook/send", "/api/webhook/test"}

C5_GlobalPerAddress ==
    \A i \in IPs : globalPassed[i] <= getSecurityConfig.rateLimitMax

\* the order of the checks as the claim gives it
claimedRank(stage) ==
    CASE stage \in {"validateRequestSize", "express.json"} -> 1
      [] stage \in {"globalLimiter", "endpointRateLimit", "rateLimitMiddleware"} -> 2
      [] stage = "ipWhitelist" -> 3
      [] stage \in {"validateApiKey", "verifySignature"} -> 4
      [] OTHER -> 5

chainOf(path) ==
    <<"validateRequestSize", "globalLimiter", "express.json">> \o
    (CASE path = "/api/admin/users" -> <<"ipWhitelist", "notFound">>
       [] path = "/api/status" ->
            <<"endpointRateLimit">> \o
            (IF nodeEnv = "test" THEN <<>> ELSE <<"validateApiKey">>) \o <<"handler">>
       [] path = "/api/webhook/send" ->
            <<"endpointRateLimit", "rateLimitMiddleware", "verifySignature", "handler">>
       [] path = "/api/webhook/test" ->
            <<"endpointRateLimit", "rateLimitMiddleware", "handler">>
       [] OTHER -> <<>>)

C7_SignatureRequired ==
    (req.path = "/api/webhook/send" /\ InTrace("verifySignature")) =>
        /\ req.signature = <<>> =>
              /\ res = [status |-> 401, error |-> "Missing webhook signature"]
              /\ ~InTrace("handler") /\ ~platformCalled
        /\ (req.signature # <<>> /\ req.signature # sign(RequestPayload, WEBHOOK_SECRET)) =>
              /\ res = [status |-> 401, error |-> "Invalid webhook signature"]
              /\ ~InTrace("handler") /\ ~platformCalled

ApiRoutes == {"/api/status", "/api/webhook/send", "/api/webhook/test"}

\* C9: when the profile requires an API key, a request to an API route that
\* carries no key or another key than the configured one never reaches the
\* route handler and is answered 401.
C9_ApiKeyRequired ==
    (/\ getSecurityConfig.requireApiKey
     /\ req.path \in ApiRoutes
     /\ req.apiKey # API_KEY)
    => /\ ~InTrace("handler")
       /\ (pc = "done" /\ trace = chainOf(req.path)) => res.status = 401

MaxEvents == 2
\* the clock of an interaction stops advancing here
MaxElapsed == 4
\* the platform's acknowledgement deadline, in seconds
AckDeadline == 3

\* the interaction kinds the gateway delivers; the last two match no branch of
\* the listener, and an autocomplete interaction is not repliable
HandledKinds == {"Button", "StringSelectMenu", "ModalSubmit", "UserSelectMenu",
                 "RoleSelectMenu", "MentionableSelectMenu", "ChannelSelectMenu"}
InteractionKinds == HandledKinds \cup {"ChatInputCommand", "Autocomplete"}

isRepliable(i) == i.kind # "Autocomplete"

\* the if / else-if chain of the listener: the typed handler of a kind
handlerFor(kind) ==
    CASE kind = "Button" -> "handleButtonInteraction"
      [] kind = "StringSelectMenu" -> "handleSelectMenuInteraction"
      [] kind = "ModalSubmit" -> "handleModalSubmitInteraction"
      [] kind = "UserSelectMenu" -> "handleUserSelectMenuInteraction"
      [] kind = "RoleSelectMenu" -> "handleRoleSelectMenuInteraction"
      [] kind = "MentionableSelectMenu" -> "handleMentionableSelectMenuInteraction"
      [] kind = "ChannelSelectMenu" -> "handleChannelSelectMenuInteraction"
      [] OTHER -> "none"

\* the guard every typed handler puts in front of its reply
handlerShouldReply(i) == ~i.replied /\ ~i.deferred

\* mutant: the error path never replies
catchShouldReplyNever(i) == FALSE

\* the guard of the catch block in front of its reply
catchShouldReply(i) == isRepliable(i) /\ ~i.replied /\ ~i.deferred

\* the outcomes of the request interaction.reply() sends
ReplyOutcomes == {"ok", "rejected"}

\* interaction.reply(): throws without sending when the interaction is already
\* replied or deferred; otherwise sends the reply and sets replied when the
\* platform accepted it, and throws when the request was rejected
replyThrows(i, outcome) == i.replied \/ i.deferred \/ outcome = "rejected"

replyInteraction(i, outcome) ==
    IF replyThrows(i, outcome) THEN i ELSE [i EXCEPT !.replied = TRUE]

replyPlatform(i, from, outcome) ==
    IF i.replied \/ i.deferred
    THEN platform
    ELSE [replies |-> Append(platform.replies,
                             [from |-> from, ephemeral |-> TRUE, accepted |-> outcome = "ok"]),
          acked |-> platform.acked \/ outcome = "ok",
          ackedAt |-> IF ~platform.acked /\ outcome = "ok" THEN elapsed ELSE platform.ackedAt]

\* the platform creates an interaction and the gateway delivers it
InteractionCreate(kind) ==
    /\ ipc = "idle"
    /\ events < MaxEvents
    /\ interaction' = [kind |-> kind, replied |-> FALSE, deferred |-> FALSE]
    /\ ipc' = "listener"
    /\ elapsed' = 0
    /\ platform' = NoPlatform
    /\ logged' = FALSE
    /\ events' = events + 1
    /\ UNCHANGED <<ixOthers>>

\* the listener runs: it picks the typed handler, which runs up to its reply
Dispatch ==
    /\ ipc = "listener"
    /\ ipc' = IF handlerFor(interaction.kind) = "none" THEN "done"
              ELSE IF handlerShouldReply(interaction) THEN "reply" ELSE "done"
    /\ UNCHANGED <<interaction, elapsed, platform, logged, events, ixOthers>>

\* the reply of the typed handler settles
HandlerReply ==
    /\ ipc = "reply"
    /\ \E outcome \in ReplyOutcomes :
         /\ interaction' = replyInteraction(interaction, outcome)
         /\ platform' = replyPlatform(interaction, "handler", outcome)
         /\ ipc' = IF replyThrows(interaction, outcome) THEN "catch" ELSE "done"
    /\ UNCHANGED <<elapsed, logged, events, ixOthers>>

\* the catch block of the listener runs up to its reply
Catch ==
    /\ ipc = "catch"
    /\ logged' = TRUE
    /\ ipc' = IF catchShouldReply(interaction) THEN "catchReply" ELSE "done"
    /\ UNCHANGED <<interaction, elapsed, platform, events, ixOthers>>

\* the reply of the catch block settles; when it throws, the rejection of the
\* listener is unhandled and the process exits
CatchReply ==
    /\ ipc = "catchReply"
    /\ \E outcome \in ReplyOutcomes :
         /\ interaction' = replyInteraction(interaction, outcome)
         /\ platform' = replyPlatform(interaction, "catch", outcome)
         /\ ipc' = IF replyThrows(interaction, outcome) THEN "exited" ELSE "done"
    /\ UNCHANGED <<elapsed, logged, events, ixOthers>>

\* the listener has returned; the next interaction can be followed
InteractionDone ==
    /\ ipc = "done"
    /\ ipc' = "idle"
    /\ interaction' = NoInteraction
    /\ platform' = NoPlatform
    /\ elapsed' = 0
    /\ logged' = FALSE
    /\ UNCHANGED <<events, ixOthers>>

\* a second passes while a reply of the listener is awaited
Second ==
    /\ ipc \in {"reply", "catchReply"}
    /\ elapsed < MaxElapsed
    /\ elapsed' = elapsed + 1
    /\ UNCHANGED <<interaction, ipc, platform, logged, events, ixOthers>>

InitIx ==
    /\ InitLimiter
    /\ hm = HmIdle
    /\ HttpOff
    /\ StartOff
    /\ CvOff
    /\ MsgOff
    /\ ExtOff
    /\ interaction = NoInteraction
    /\ ipc = "idle"
    /\ elapsed = 0
    /\ platform = NoPlatform
    /\ logged = FALSE
    /\ events = 0

NextIx ==
    \/ \E kind \in InteractionKinds : InteractionCreate(kind)
    \/ Dispatch
    \/ HandlerReply
    \/ Catch
    \/ CatchReply
    \/ InteractionDone
    \/ Second

SpecIx == InitIx /\ [][NextIx]_vars

\* C11: no more than one reply is sent to the platform for one interaction
C11_AtMostOneReply == Len(platform.replies) <= 1

\* C12: when the listener has returned for an interaction, the interaction
\* has been acknowledged
C12_EveryEventAcknowledged == (ipc = "done") => platform.acked

\* C13: an interaction with a typed handler is acknowledged within the
\* deadline: once the deadline has passed it has been acknowledged in time
C13_AcknowledgedInTime ==
    (handlerFor(interaction.kind) # "none" /\ elapsed > AckDeadline)
        => (platform.acked /\ platform.ackedAt <= AckDeadline)

\* C14: an exception of a typed handler reaches the catch block, which logs
\* it and sends one ephemeral error reply when the interaction has not been
\* replied to or deferred, and otherwise sends nothing
C14_CatchBoundary ==
    [][ /\ (ipc = "reply" /\ ipc' # "reply") => ipc' \in {"done", "catch"}
        /\ (ipc = "catch" /\ ipc' # "catch") =>
              /\ logged'
              /\ platform' = platform
              /\ IF ~interaction.replied /\ ~interaction.deferred
                 THEN ipc' = "catchReply"
                 ELSE ipc' = "done"
        /\ (ipc = "catchReply" /\ ipc' # "catchReply") =>
              /\ Len(platform'.replies) = Len(platform.replies) + 1
              /\ platform'.replies[Len(platform'.replies)].from = "catch"
              /\ platform'.replies[Len(platform'.replies)].ephemeral
      ]_vars

C14_Witness ==
    /\ ipc = "done"
    /\ logged
    /\ Len(platform.replies) = 2
    /\ platform.replies[1].from = "handler" /\ ~platform.replies[1].accepted
    /\ platform.replies[2].from = "catch" /\ platform.replies[2].accepted

(***************************************************************************)
(* Components v2 limits (utils: COMPONENTS_V2_LIMITS, validateComponentsV2) *)
(***************************************************************************)
MAX_COMPONENTS_PER_MESSAGE == 40
MAX_TEXT_DISPLAY_CHARS == 4000
MAX_MEDIA_GALLERY_ITEMS == 10

\* the stats of the model lie within this distance of a limit (or are 0)
Margin == 2

Around(limit) == {0} \cup ((limit - Margin)..(limit + Margin))

StatsInputs ==
    [componentCount : Around(MAX_COMPONENTS_PER_MESSAGE),
     textDisplayChars : Around(MAX_TEXT_DISPLAY_CHARS),
     mediaGalleryItems : Around(MAX_MEDIA_GALLERY_ITEMS)]

\* mutant: a count equal to the limit is refused
validateComponentsV2Strict(s) ==
    IF s.componentCount >= MAX_COMPONENTS_PER_MESSAGE THEN "Too many components"
    ELSE IF s.textDisplayChars >= MAX_TEXT_DISPLAY_CHARS THEN "Too many TextDisplay characters"
    ELSE IF s.mediaGalleryItems >= MAX_MEDIA_GALLERY_ITEMS THEN "Too many MediaGallery items"
    ELSE "ok"

\* validateComponentsV2: the message of the Error it throws, or "ok" when it returns
validateComponentsV2(s) ==
    IF s.componentCount > MAX_COMPONENTS_PER_MESSAGE THEN "Too many components"
    ELSE IF s.textDisplayChars > MAX_TEXT_DISPLAY_CHARS THEN "Too many TextDisplay characters"
    ELSE IF s.mediaGalleryItems > MAX_MEDIA_GALLERY_ITEMS THEN "Too many MediaGallery items"
    ELSE "ok"

ValidateComponentsV2 ==
    /\ verdict = "none"
    /\ verdict' = validateComponentsV2(stats)
    /\ UNCHANGED <<stats, cvOthers>>

InitValidate ==
    /\ InitLimiter
    /\ hm = HmIdle
    /\ HttpOff
    /\ StartOff
    /\ IxOff
    /\ MsgOff
    /\ ExtOff
    /\ stats \in StatsInputs
    /\ verdict = "none"

NextValidate == ValidateComponentsV2

SpecValidate == InitValidate /\ [][NextValidate]_vars

\* C16: validateComponentsV2 accepts exactly the stats with at most 40
\* components, 4000 TextDisplay characters and 10 gallery items, and the error
\* names the first exceeded limit in the order components, text, gallery
C16_LimitsExact ==
    verdict \notin {"none", "off"} =>
        /\ verdict = "ok" <=> /\ stats.componentCount <= 40
                              /\ stats.textDisplayChars <= 4000
                              /\ stats.mediaGalleryItems <= 10
        /\ stats.componentCount > 40 => verdict = "Too many components"
        /\ (stats.componentCount <= 40 /\ stats.textDisplayChars > 4000)
              => verdict = "Too many TextDisplay characters"
        /\ (stats.componentCount <= 40 /\ stats.textDisplayChars <= 4000
              /\ stats.mediaGalleryItems > 10)
              => verdict = "Too many MediaGallery items"

C16_Witness ==
    /\ stats = [componentCount |-> 40, textDisplayChars |-> 4000, mediaGalleryItems |-> 10]
    /\ verdict = "ok"

(***************************************************************************)
(* Component messages: POST /components/v2/message (routes/components),    *)
(* POST /webhook/send-v2 (routes/webhook), and the builders of             *)
(* DiscordService                                                          *)
(***************************************************************************)
\* the routers receive at most this many component-message requests
MaxMsgs == 3

\* texts are sequences of characters
PlainText == <<"h", "i">>
TagText == <<"<", "b", ">", "!">>
QuoteText == <<" ", "\"", "a", "'", "&">>
Texts == {PlainText, TagText, QuoteText}

RECURSIVE replaceAll(_, _, _)
\* String.replace(/[c]/g, r)
replaceAll(text, c, r) ==
    IF text = <<>> THEN <<>>
    ELSE (IF Head(text) = c THEN r ELSE <<Head(text)>>) \o replaceAll(Tail(text), c, r)

RECURSIVE trimStart(_)
trimStart(text) ==
    IF text # <<>> /\ Head(text) = " " THEN trimStart(Tail(text)) ELSE text

RECURSIVE trimEnd(_)
trimEnd(text) ==
    IF text # <<>> /\ text[Len(text)] = " "
    THEN trimEnd(SubSeq(text, 1, Len(text) - 1)) ELSE text

\* String.trim()
trim(text) == trimEnd(trimStart(text))

\* sanitizeInput: drop < and >, escape & then " then ', trim
sanitizeInput(input) ==
    trim(replaceAll(replaceAll(replaceAll(replaceAll(replaceAll(input,
            "<", <<>>),
            ">", <<>>),
            "&", <<"&", "a", "m", "p", ";">>),
            "\"", <<"&", "q", "u", "o", "t", ";">>),
            "'", <<"&", "#", "x", "2", "7", ";">>))

\* a component: its type, its text fields, the size of its TextDisplay
\* content, its gallery items and its children
Node(type, label, customId, chars, items, children) ==
    [type |-> type, label |-> label, customId |-> customId,
     chars |-> chars, items |-> items, children |-> children]

Leaf(type, label) == Node(type, label, <<"i", "d">>, 0, 0, <<>>)

\* placeholder || 'Select an option...'
DefaultPlaceholder ==
    <<"S", "e", "l", "e", "c", "t", " ", "a", "n", " ", "o", "p", "t", "i", "o", "n", ".", ".", ".">>

\* buildButton: label and customId are set as given
buildButton(buttonData) ==
    Node("Button", buttonData.label, buttonData.customId, 0, 0, <<>>)

\* buildSelectMenu: customId and placeholder are set as given
buildSelectMenu(selectData) ==
    Node("StringSelect",
         IF selectData.label = <<>> THEN DefaultPlaceholder ELSE selectData.label,
         selectData.customId, 0, 0, <<>>)

RECURSIVE buildChildren(_)
\* the forEach of buildContainer: a button or a select is added to the action
\* row, a child of any other type is passed over
buildChildren(children) ==
    IF children = <<>> THEN <<>>
    ELSE LET child == Head(children)
             rest == buildChildren(Tail(children))
         IN  IF child.type = "button" THEN <<buildButton(child)>> \o rest
             ELSE IF child.type = "select" THEN <<buildSelectMenu(child)>> \o rest
             ELSE rest

\* buildContainer(containerData).toJSON()
buildContainer(containerData) ==
    Node("ActionRow", <<>>, <<>>, 0, 0, buildChildren(containerData.children))

RECURSIVE buildContainers(_)
\* containers.map(container => buildContainer(container).toJSON())
buildContainers(containers) ==
    IF containers = <<>> THEN <<>>
    ELSE <<buildContainer(Head(containers))>> \o buildContainers(Tail(containers))

\* the children a caller may put into a container
ChildrenInputs ==
    { <<>>,
      <<Leaf("button", PlainText)>>,
      <<Leaf("button", TagText)>>,
      <<Leaf("select", <<>>)>>,
      <<Leaf("button", PlainText), Leaf("container", PlainText)>> }

ContainersInputs ==
    {<<>>} \cup {<<[type |-> "container", children |-> ch]>> : ch \in ChildrenInputs}

\* messageData.components: components the caller supplies ready-made
ComponentsInputs ==
    { <<>>,
      <<Node("Button", QuoteText, <<"i", "d">>, 0, 0, <<>>)>>,
      [i \in 1..MAX_COMPONENTS_PER_MESSAGE |-> Node("TextDisplay", <<>>, <<>>, 1, 0, <<>>)],
      [i \in 1..(MAX_COMPONENTS_PER_MESSAGE + 1) |-> Node("TextDisplay", <<>>, <<>>, 1, 0, <<>>)],
      <<Node("TextDisplay", <<>>, <<>>, MAX_TEXT_DISPLAY_CHARS + 1, 0, <<>>)>>,
      <<Node("MediaGallery", <<>>, <<>>, 0, MAX_MEDIA_GALLERY_ITEMS + 1, <<>>)>> }

\* every pairing of containers and supplied components under a plain content,
\* and every pairing of content and username without components
MessageDataInputs ==
    [content : {PlainText}, username : {<<>>},
     containers : ContainersInputs, components : ComponentsInputs]
    \cup
    [content : {<<>>} \cup Texts, username : {<<>>, TagText},
     containers : {<<>>}, components : {<<>>}]

MsgPaths == {"/api/components/v2/message", "/api/webhook/send-v2"}

\* channelId or webhookUrl of the body (well-formed, malformed, or absent), and
\* whether the platform accepts what is sent to a well-formed one
Targets == {[target |-> "valid", platformOk |-> TRUE],
            [target |-> "valid", platformOk |-> FALSE],
            [target |-> "invalid", platformOk |-> FALSE],
            [target |-> "missing", platformOk |-> FALSE]}

MsgRequests ==
    {[path |-> p, ip |-> "10.0.0.9", signature |-> g,
      target |-> t.target, platformOk |-> t.platformOk, messageData |-> m] :
        p \in MsgPaths, g \in {ValidSignature, alter(ValidSignature, "flip")},
        t \in Targets, m \in MessageDataInputs}

\* new DiscordService(): isReady is false until the 'ready' event of a login
NewDiscordService == [isReady |-> FALSE, clientReady |-> FALSE]

\* the instance server.ts creates and logs in
ServerDiscordService == [isReady |-> serverReady, clientReady |-> serverReady]

\* mutant: the flag of the service alone
isConnectedFlagOnly(service) == service.isReady

\* isConnected(): this.isReady && this.client.isReady()
isConnected(service) == service.isReady /\ service.clientReady

\* the sanitizedMessageData of POST /components/v2/message: content only
sanitizedForMessage(messageData) ==
    [messageData EXCEPT !.content = IF messageData.content # <<>>
                                    THEN sanitizeInput(messageData.content) ELSE <<>>]

\* the sanitizedMessageData of POST /webhook/send-v2: content and username
sanitizedForSendV2(messageData) ==
    [messageData EXCEPT !.content = IF messageData.content # <<>>
                                    THEN sanitizeInput(messageData.content) ELSE <<>>,
                        !.username = IF messageData.username # <<>>
                                     THEN sanitizeInput(messageData.username) ELSE <<>>]

\* the components of the payload: built containers, then the supplied components
payloadComponents(messageData) ==
    buildContainers(messageData.containers) \o messageData.components

\* createComponentsV2Message: the error it throws ("" when it returns) and
\* the payload it passed to channel.send()
createComponentsV2Message(service, channelId, messageData, platformOk) ==
    IF ~isConnected(service)
    THEN [error |-> "Discord client not connected", payload |-> NoPayload]
    ELSE IF channelId # "valid"
    THEN [error |-> "Invalid channel ID", payload |-> NoPayload]
    ELSE [error |-> IF platformOk THEN "" ELSE "send failed",
          payload |-> [sent |-> TRUE, content |-> messageData.content, username |-> <<>>,
                       components |-> payloadComponents(messageData)]]

\* the table of the RateLimiter instance of the router that owns the path
limiterOf(path) ==
    IF path = "/api/webhook/send-v2" THEN requests ELSE componentsRequests

\* the settings of a feature flag in the environment of the process
FlagSettings == {"", "true", "false"}

\* the feature flags envSchema declares
DeclaredFlags == {"ENABLE_CHANNEL_MANAGEMENT", "ENABLE_ROLE_MANAGEMENT",
                  "ENABLE_WEBHOOK_SYSTEM", "ENABLE_SERVER_CONFIG"}

\* env.<name> after envSchema.safeParse(process.env): a declared flag is
\* (setting === 'true') with the default 'true'; a key the schema does not
\* declare is stripped from the parsed object, and reads as undefined
featureFlag(name, setting) ==
    IF name \in DeclaredFlags
    THEN (IF setting = "" THEN TRUE ELSE setting = "true")
    ELSE FALSE

\* a component-message request reaches its router
MsgArrive(r) ==
    /\ mpc = "idle"
    /\ msgs < MaxMsgs
    /\ msg' = r
    /\ mpc' = "rateLimitMiddleware"
    /\ mres' = NoMres
    /\ forwarded' = NoPayload
    /\ msgs' = msgs + 1
    /\ UNCHANGED <<serverReady, enableV2, requests, componentsRequests, msgOthers>>

\* rateLimitMiddleware of the router
MsgRateLimit ==
    /\ mpc = "rateLimitMiddleware"
    /\ IF msg.path = "/api/webhook/send-v2"
       THEN /\ requests' = isAllowedTable(requests, msg.ip, now)
            /\ UNCHANGED componentsRequests
       ELSE /\ componentsRequests' = isAllowedTable(componentsRequests, msg.ip, now)
            /\ UNCHANGED requests
    /\ IF ~isAllowedRet(limiterOf(msg.path), msg.ip, now)
       THEN /\ mres' = [NoMres EXCEPT !.status = 429, !.error = "Rate limit exceeded"]
            /\ mpc' = "done"
       ELSE /\ mres' = mres
            /\ mpc' = "verifySignature"
    /\ UNCHANGED <<msg, forwarded, serverReady, enableV2, msgs, msgOthers>>

\* verifySignature of the router
MsgVerifySignature ==
    /\ mpc = "verifySignature"
    /\ IF msg.signature = <<>>
       THEN /\ mres' = [NoMres EXCEPT !.status = 401, !.error = "Missing webhook signature"]
            /\ mpc' = "done"
       ELSE IF ~verifyWebhookSignature(RequestPayload, msg.signature, WEBHOOK_SECRET)
       THEN /\ mres' = [NoMres EXCEPT !.status = 401, !.error = "Invalid webhook signature"]
            /\ mpc' = "done"
       ELSE /\ mres' = mres
            /\ mpc' = "handler"
    /\ UNCHANGED <<msg, forwarded, serverReady, enableV2, msgs, requests, componentsRequests,
                   msgOthers>>

\* the handler of POST /components/v2/message
V2MessageHandler ==
    /\ mpc = "handler"
    /\ msg.path = "/api/components/v2/message"
    /\ mpc' = "done"
    /\ IF ~featureFlag("ENABLE_COMPONENTS_V2", enableV2)
       THEN /\ mres' = [status |-> 403, error |-> "Components v2 is disabled",
                        connected |-> serverReady]
            /\ forwarded' = forwarded
       ELSE IF msg.target = "missing"
       THEN /\ mres' = [status |-> 400, error |-> "channelId and messageData are required",
                        connected |-> serverReady]
            /\ forwarded' = forwarded
       ELSE LET r == createComponentsV2Message(NewDiscordService, msg.target,
                                               sanitizedForMessage(msg.messageData),
                                               msg.platformOk)
            IN  /\ forwarded' = r.payload
                /\ mres' = IF r.error = ""
                           THEN [status |-> 200, error |-> "", connected |-> serverReady]
                           ELSE [status |-> 500,
                                 error |-> "Failed to send Components v2 message",
                                 connected |-> serverReady]
    /\ UNCHANGED <<msg, serverReady, enableV2, msgs, requests, componentsRequests, msgOthers>>

\* the handler of POST /webhook/send-v2
SendV2Handler ==
    /\ mpc = "handler"
    /\ msg.path = "/api/webhook/send-v2"
    /\ mpc' = "done"
    /\ IF msg.target = "missing"
       THEN /\ mres' = [status |-> 400, error |-> "webhookUrl and messageData are required",
                        connected |-> serverReady]
            /\ forwarded' = forwarded
       ELSE IF msg.target = "invalid"
       THEN /\ mres' = [status |-> 400, error |-> "Invalid webhook URL format",
                        connected |-> serverReady]
            /\ forwarded' = forwarded
       ELSE LET sanitizedMessageData == sanitizedForSendV2(msg.messageData)
            IN  /\ forwarded' = [sent |-> TRUE,
                                 content |-> sanitizedMessageData.content,
                                 username |-> sanitizedMessageData.username,
                                 components |-> payloadComponents(sanitizedMessageData)]
                /\ mres' = IF msg.platformOk
                           THEN [status |-> 200, error |-> "", connected |-> serverReady]
                           ELSE [status |-> 500,
                                 error |-> "Failed to send Components v2 webhook",
                                 connected |-> serverReady]
    /\ UNCHANGED <<msg, serverReady, enableV2, msgs, requests, componentsRequests, msgOthers>>

\* the response has been sent; the next request can be followed
MsgDone ==
    /\ mpc = "done"
    /\ mpc' = "idle"
    /\ msg' = NoMsg
    /\ mres' = NoMres
    /\ forwarded' = NoPayload
    /\ UNCHANGED <<serverReady, enableV2, msgs, requests, componentsRequests, msgOthers>>

\* the 'ready' event of the client of the server's DiscordService
ClientReady ==
    /\ ~serverReady
    /\ serverReady' = TRUE
    /\ UNCHANGED <<msg, mpc, mres, forwarded, enableV2, msgs, requests, componentsRequests,
                   msgOthers>>

InitMsg ==
    /\ InitLimiter
    /\ hm = HmIdle
    /\ HttpOff
    /\ StartOff
    /\ IxOff
    /\ CvOff
    /\ ExtOff
    /\ msg = NoMsg
    /\ mpc = "idle"
    /\ mres = NoMres
    /\ forwarded = NoPayload
    /\ serverReady = FALSE
    /\ enableV2 \in FlagSettings
    /\ componentsRequests = [i \in Identifiers |-> <<>>]
    /\ msgs = 0

NextMsg ==
    \/ \E r \in MsgRequests : MsgArrive(r)
    \/ MsgRateLimit
    \/ MsgVerifySignature
    \/ V2MessageHandler
    \/ SendV2Handler
    \/ MsgDone
    \/ ClientReady

SpecMsg == InitMsg /\ [][NextMsg]_vars

(***************************************************************************)
(* Properties of the component messages                                    *)
(***************************************************************************)
RECURSIVE componentCount(_)
\* the components of a tree, nested ones included
componentCount(components) ==
    IF components = <<>> THEN 0
    ELSE 1 + componentCount(Head(components).children) + componentCount(Tail(components))

RECURSIVE textDisplayChars(_)
textDisplayChars(components) ==
    IF components = <<>> THEN 0
    ELSE (IF Head(components).type = "TextDisplay" THEN Head(components).chars ELSE 0)
         + textDisplayChars(Head(components).children) + textDisplayChars(Tail(components))

RECURSIVE mediaGalleryItems(_)
mediaGalleryItems(components) ==
    IF components = <<>> THEN 0
    ELSE Head(components).items
         + mediaGalleryItems(Head(components).children) + mediaGalleryItems(Tail(components))

\* the ComponentsV2Stats of a tree
statsOf(components) ==
    [componentCount |-> componentCount(components),
     textDisplayChars |-> textDisplayChars(components),
     mediaGalleryItems |-> mediaGalleryItems(components)]

\* a container of the request holds a child that is neither a button nor a select
hasIllegalChild(containers) ==
    \E i \in 1..Len(containers) :
        \E j \in 1..Len(containers[i].children) :
            containers[i].children[j].type \notin {"button", "select"}

isRaw(text) == \E k \in 1..Len(text) : text[k] \in {"<", ">", "\"", "'"}

RECURSIVE anyRawField(_)
\* some label or custom identifier of the tree holds a raw character
anyRawField(components) ==
    IF components = <<>> THEN FALSE
    ELSE \/ isRaw(Head(components).label)
         \/ isRaw(Head(components).customId)
         \/ anyRawField(Head(components).children)
         \/ anyRawField(Tail(components))

\* C15: what is sent to the platform is a valid tree: within the three limits
\* and built from containers without an illegal child
C15_OnlyValidForwarded ==
    forwarded.sent =>
        /\ validateComponentsV2(statsOf(forwarded.components)) = "ok"
        /\ ~hasIllegalChild(msg.messageData.containers)

\* C17: a container given an illegal child is not built: the request ends
\* without an action row made from it
C17_IllegalChildRejected ==
    (mpc = "done" /\ hasIllegalChild(msg.messageData.containers))
        => \A i \in 1..Len(forwarded.components) :
               forwarded.components[i].type # "ActionRow"

\* C18: no text field of a message sent to the platform holds a raw <, >, " or '
C18_TextSanitized ==
    forwarded.sent =>
        /\ ~isRaw(forwarded.content)
        /\ ~isRaw(forwarded.username)
        /\ ~anyRawField(forwarded.components)

\* C19: with the server connected and the feature enabled, a component-message
\* request with a valid signature, under the rate limit, to a valid channel
\* the platform accepts, with a valid tree, is answered 200 and sent
C19_ValidRequestForwarded ==
    ( /\ mpc = "done"
      /\ msg.path = "/api/components/v2/message"
      /\ mres.connected
      /\ enableV2 = "true"
      /\ msg.signature = ValidSignature
      /\ mres.status # 429
      /\ msg.target = "valid"
      /\ msg.platformOk
      /\ validateComponentsV2(statsOf(payloadComponents(msg.messageData))) = "ok"
      /\ ~hasIllegalChild(msg.messageData.containers) )
        => (mres.status = 200 /\ forwarded.sent)

\* C22: with ENABLE_COMPONENTS_V2 set to true, a rate-admitted, correctly
\* signed request to a Components v2 endpoint passes the feature gate: it is
\* not answered 403
C22_FlagOnPassesGate ==
    ( /\ mpc = "done"
      /\ msg.path = "/api/components/v2/message"
      /\ enableV2 = "true"
      /\ msg.signature = ValidSignature
      /\ mres.status # 429 )
        => mres.status # 403

(***************************************************************************)
(* Start of the process (config/environment.ts, config/security.config.ts, *)
(* server.ts)                                                              *)
(***************************************************************************)
\* the process serves at most this many requests
MaxServed == 2

\* config/environment.ts is loaded: the process exits when the schema refuses
\* the environment
LoadEnv ==
    /\ spc = "loadEnv"
    /\ spc' = IF envSchemaParse(senv) THEN "validate" ELSE "exited"
    /\ UNCHANGED <<senv, listening, loggedIn, validations, served, startOthers>>

\* server.ts: securityValidation, and process.exit(1) when it is not valid
ValidateSecurity ==
    /\ spc = "validate"
    /\ validations' = validations + 1
    /\ spc' = IF validateSecurityRequirements(senv) = {} THEN "listen" ELSE "exited"
    /\ UNCHANGED <<senv, listening, loggedIn, served, startOthers>>

\* app.listen
Listen ==
    /\ spc = "listen"
    /\ listening' = TRUE
    /\ spc' = "login"
    /\ UNCHANGED <<senv, loggedIn, validations, served, startOthers>>

\* the callback of app.listen: discordService.login(), process.exit(1) when it fails
Login ==
    /\ spc = "login"
    /\ \E ok \in BOOLEAN :
         IF ok THEN /\ loggedIn' = TRUE
                    /\ spc' = "serving"
                    /\ UNCHANGED listening
               ELSE /\ spc' = "exited"
                    /\ listening' = FALSE
                    /\ UNCHANGED loggedIn
    /\ UNCHANGED <<senv, validations, served, startOthers>>

\* the listening server serves a request
Serve ==
    /\ listening
    /\ spc \in {"login", "serving"}
    /\ served < MaxServed
    /\ served' = served + 1
    /\ UNCHANGED <<senv, spc, listening, loggedIn, validations, startOthers>>

\* SIGTERM or SIGINT: gracefulShutdown
GracefulShutdown ==
    /\ spc = "serving"
    /\ spc' = "exited"
    /\ listening' = FALSE
    /\ loggedIn' = FALSE
    /\ UNCHANGED <<senv, validations, served, startOthers>>

InitStart ==
    /\ InitLimiter
    /\ hm = HmIdle
    /\ HttpOff
    /\ IxOff
    /\ CvOff
    /\ MsgOff
    /\ ExtOff
    /\ senv \in EnvInputs
    /\ spc = "loadEnv"
    /\ listening = FALSE
    /\ loggedIn = FALSE
    /\ validations = 0
    /\ served = 0

NextStart ==
    \/ LoadEnv
    \/ ValidateSecurity
    \/ Listen
    \/ Login
    \/ Serve
    \/ GracefulShutdown

SpecStart == InitStart /\ [][NextStart]_vars

\* the security settings the claim calls invalid
SecuritySettingsInvalid ==
    \/ senv.nodeEnv \in {"development", "production"} /\ senv.apiKeyLength < 16
    \/ senv.nodeEnv \in {"development", "production"} /\ senv.secretLength < 32
    \/ senv.encryptionKeyLength # 32
    \/ ~senv.token
    \/ senv.nodeEnv = "production"

\* C20: with invalid security settings the process never listens, never logs
\* in and serves nothing; the validation runs at most once, and a run of it
\* that found an error is followed by the exit
C20_FailFast ==
    /\ SecuritySettingsInvalid =>
          (~listening /\ ~loggedIn /\ served = 0 /\ spc \in {"loadEnv", "validate", "exited"})
    /\ validations <= 1
    /\ (validations = 1 /\ SecuritySettingsInvalid) => spc = "exited"

C20_Witness ==
    /\ spc = "exited"
    /\ validations = 1
    /\ validateSecurityRequirements(senv) # {}
    /\ ~listening /\ ~loggedIn /\ served = 0

\* the production configuration of the setup guide
DocumentedProductionEnv ==
    /\ senv.nodeEnv = "production"
    /\ senv.host = "127.0.0.1"
    /\ senv.logLevel = "warn"
    /\ senv.apiKeyLength >= 16
    /\ senv.secretLength >= 32
    /\ senv.encryptionKeyLength = 32
    /\ senv.token

\* C21: with the documented production configuration the validation, once
\* run, has reported no error and the process has not exited on it
C21_ProductionStarts ==
    (DocumentedProductionEnv /\ validations = 1)
        => (validateSecurityRequirements(senv) = {} /\ (spc = "exited" => served > 0))

(***************************************************************************)
(* The sends of the webhook routes to the platform (routes/webhook.routes, *)
(* DiscordService.sendWebhookMessage)                                      *)
(***************************************************************************)
\* the state of the earlier sections, which the following sections leave alone
oldVars == <<rlVars, hmVars, httpVars, ixVars, cvVars, msgVars, startVars>>

OldOff ==
    /\ InitLimiter
    /\ hm = HmIdle
    /\ HttpOff
    /\ IxOff
    /\ CvOff
    /\ MsgOff
    /\ StartOff

\* the sends followed
MaxSends == 2
\* the clock stops after this many units of 10 s
MaxWait == 5
\* env.WEBHOOK_TIMEOUT (default 30000 ms), in units of 10 s
WEBHOOK_TIMEOUT == 3

\* the routes whose handler awaits fetch(webhookUrl, ...)
SendRoutes == {"/api/webhook/send", "/api/webhook/send-v2"}
\* how a fetch settles: response.ok, !response.ok, or a rejected promise
FetchOutcomes == {"ok", "notOk", "rejected"}

\* what the send routes leave alone
sendOthers == <<oldVars, grpVars, connVars, downVars, bulkVars>>

\* a request passed rateLimitMiddleware, verifySignature and the checks of the
\* handler: the handler calls fetch and awaits it; no timer and no abort signal
\* is set up
StartFetch(route) ==
    /\ Len(sendq) < MaxSends
    /\ sendq' = Append(sendq, [route |-> route, pc |-> "fetch", waited |-> 0, status |-> 0])
    /\ UNCHANGED sendOthers

\* the platform answers, or the connection fails: the awaited fetch settles,
\* and the handler answers 200, or 500 from its catch block
FetchSettles(i, outcome) ==
    /\ sendq[i].pc = "fetch"
    /\ sendq' = [sendq EXCEPT ![i].pc = "done",
                              ![i].status = IF outcome = "ok" THEN 200 ELSE 500]
    /\ UNCHANGED sendOthers

\* ten seconds pass while some fetch is awaited
SendWait ==
    /\ \E i \in 1..Len(sendq) : sendq[i].pc = "fetch"
    /\ \A i \in 1..Len(sendq) : sendq[i].waited < MaxWait
    /\ sendq' = [i \in 1..Len(sendq) |->
                    IF sendq[i].pc = "fetch"
                    THEN [sendq[i] EXCEPT !.waited = @ + 1] ELSE sendq[i]]
    /\ UNCHANGED sendOthers

InitSend ==
    /\ OldOff
    /\ GrpOff
    /\ ConnOff
    /\ DownOff
    /\ BulkOff
    /\ sendq = <<>>

NextSend ==
    \/ \E route \in SendRoutes : StartFetch(route)
    \/ \E i \in 1..Len(sendq), outcome \in FetchOutcomes : FetchSettles(i, outcome)
    \/ SendWait

SpecSend == InitSend /\ [][NextSend]_vars

\* C23: a send to the platform is bounded by the configured timeout: no
\* request waits for the platform longer than WEBHOOK_TIMEOUT without having
\* been answered
C23_SendBounded ==
    \A i \in 1..Len(sendq) :
        sendq[i].pc = "fetch" => sendq[i].waited <= WEBHOOK_TIMEOUT

(***************************************************************************)
(* The route-level rate limiters: every router module creates a            *)
(* RateLimiter of its own and runs rateLimitMiddleware first               *)
(***************************************************************************)
\* the requests followed, and the last clock value, when one router is followed
MaxFlights == 4
GroupMaxTime == 5
\* the same, when all the routers are followed
FrameMaxFlights == 3
FrameMaxTime == 1

\* mutant: one RateLimiter shared by the routers
rateLimiterShared(group) == "webhook"

\* the RateLimiter instance the rateLimitMiddleware of a router uses: the
\* module-level const rateLimiter = new RateLimiter() of its own file
rateLimiterOf(group) == group

\* mutant: the header is computed before isAllowed records the request
rateLimitMiddlewareHeaderFirst(table, clientId, t) ==
    [allowed |-> isAllowedRet(table, clientId, t),
     table |-> isAllowedTable(table, clientId, t),
     status |-> IF isAllowedRet(table, clientId, t) THEN 0 ELSE 429,
     remaining |-> IF isAllowedRet(table, clientId, t)
                   THEN getRemainingRequests(table, clientId, t) ELSE -1]

\* rateLimitMiddleware on a table at time t: 429 when isAllowed refuses,
\* otherwise X-RateLimit-Remaining is set from getRemainingRequests, called
\* after isAllowed, and next() is called (status 0: no response yet)
rateLimitMiddleware(table, clientId, t) ==
    LET allowed == isAllowedRet(table, clientId, t)
        after == isAllowedTable(table, clientId, t)
    IN  [allowed |-> allowed,
         table |-> after,
         status |-> IF allowed THEN 0 ELSE 429,
         remaining |-> IF allowed THEN getRemainingRequests(after, clientId, t) ELSE -1]

\* what the routers leave alone
grpOthers == <<requests, lastCall, denied, inWindow, hmVars, httpVars, ixVars, cvVars,
               msgVars, startVars, sendVars, connVars, downVars, bulkVars>>

\* a request for a route of a router is received and the rateLimitMiddleware
\* of the router runs for it, while the handlers of the requests admitted
\* before await the platform: a synchronous function, it runs from its first
\* statement to its return before any other callback of the process runs
GroupRateLimit(group, ip, maxFlights) ==
    LET r == [group |-> group, ip |-> ip]
        limiter == rateLimiterOf(r.group)
        m == rateLimitMiddleware(pools[limiter], r.ip, now)
    IN  /\ lastMw.seq < maxFlights
        /\ pools' = [pools EXCEPT ![limiter] = m.table]
        /\ lastMw' = [seq |-> lastMw.seq + 1, group |-> r.group, ip |-> r.ip, at |-> now,
                      allowed |-> m.allowed, status |-> m.status,
                      remaining |-> m.remaining]
        /\ admits' = IF m.allowed
                     THEN [admits EXCEPT ![r.group][r.ip] = Append(@, now)]
                     ELSE admits
        /\ pending' = IF m.allowed THEN pending + 1 ELSE pending
        /\ UNCHANGED <<now, grpOthers>>

\* the handler of an admitted request answers
GroupDone ==
    /\ pending > 0
    /\ pending' = pending - 1
    /\ UNCHANGED <<now, pools, lastMw, admits, grpOthers>>

\* the clock advances
GroupTick(maxTime) ==
    /\ now < maxTime
    /\ now' = now + 1
    /\ UNCHANGED <<pools, pending, lastMw, admits, grpOthers>>

InitGroups ==
    /\ OldOff
    /\ SendOff
    /\ ConnOff
    /\ DownOff
    /\ BulkOff
    /\ pools = [g \in Groups |-> [i \in Identifiers |-> <<>>]]
    /\ pending = 0
    /\ lastMw = NoMw
    /\ admits = [g \in Groups |-> [i \in Identifiers |-> <<>>]]

\* the requests for the routes of every router
NextGroups ==
    \/ \E group \in Groups, ip \in Identifiers : GroupRateLimit(group, ip, FrameMaxFlights)
    \/ GroupDone
    \/ GroupTick(FrameMaxTime)

SpecGroups == InitGroups /\ [][NextGroups]_vars

\* the requests for the routes of the webhook router
NextWebhookGroup ==
    \/ \E ip \in Identifiers : GroupRateLimit("webhook", ip, MaxFlights)
    \/ GroupDone
    \/ GroupTick(GroupMaxTime)

SpecWebhookGroup == InitGroups /\ [][NextWebhookGroup]_vars

\* the number of timestamps of a record that are inside the window at time t
CountInWindow(record, t) ==
    Cardinality({k \in 1..Len(record) : t - record[k] < WindowMs})

\* C24: getRemainingRequests is max(0, maxRequests - the timestamps of the
\* identity still inside the window) and never negative, and the
\* X-RateLimit-Remaining of an admitted request is that value with the
\* request itself recorded
C24_Remaining ==
    /\ \A g \in Groups, i \in Identifiers :
          LET left == MaxRequests - CountInWindow(pools[g][i], now)
          IN  /\ getRemainingRequests(pools[g], i, now) >= 0
              /\ getRemainingRequests(pools[g], i, now) = IF left > 0 THEN left ELSE 0
    /\ lastMw.allowed =>
          LET record == pools[lastMw.group][lastMw.ip]
              left == MaxRequests - CountInWindow(record, lastMw.at)
          IN  /\ record # <<>> /\ record[Len(record)] = lastMw.at
              /\ lastMw.remaining = IF left > 0 THEN left ELSE 0

\* an identity was admitted more than maxRequests times in all; its earliest
\* timestamps have left the window, and the request that fills the window
\* again carries the header value 0
C24_Witness ==
    /\ lastMw.allowed
    /\ lastMw.remaining = 0
    /\ Len(admits[lastMw.group][lastMw.ip]) > MaxRequests

\* C25: whatever the order in which the requests received are handled, every
\* admission inside the window is in the stored record, and no identity has
\* more than maxRequests admissions inside one window
C25_NoLostUpdate ==
    \A g \in Groups, i \in Identifiers :
        /\ CountInWindow(admits[g][i], now) <= MaxRequests
        /\ validRequests(admits[g][i], now) = validRequests(pools[g][i], now)

\* a burst: maxRequests requests of one identity were admitted at one instant
\* and, while the handlers of all of them are still running, one more request
\* of the identity is refused at the same instant
C25_Witness ==
    /\ lastMw.seq = MaxRequests + 1
    /\ lastMw.status = 429
    /\ pending = MaxRequests
    /\ Len(admits[lastMw.group][lastMw.ip]) = MaxRequests
    /\ \A k \in 1..MaxRequests : admits[lastMw.group][lastMw.ip][k] = lastMw.at

\* C26 as stated: at every clock value no stored record holds a timestamp
\* older than now - window
C26_NeverStale ==
    \A g \in Groups, i \in Identifiers :
        \A k \in 1..Len(pools[g][i]) : now - pools[g][i][k] <= WindowMs

\* C26: after an admission check of an identity, its stored record holds only
\* timestamps inside the window of that check; a record is pruned by the
\* checks of its identity only
C26_PrunedAtCheck ==
    lastMw.group # "none" =>
        \A k \in 1..Len(pools[lastMw.group][lastMw.ip]) :
            lastMw.at - pools[lastMw.group][lastMw.ip][k] < WindowMs

\* a check that dropped a timestamp of an earlier admission
C26_Witness ==
    /\ lastMw.allowed
    /\ Len(admits[lastMw.group][lastMw.ip]) > Len(pools[lastMw.group][lastMw.ip])

\* C27: a run of the rateLimitMiddleware of one router for one identity
\* leaves the tables of the other routers, and the records of the other
\* identities in its own table, as they were
C27_PoolsIndependent ==
    [][lastMw'.seq # lastMw.seq =>
          \A g \in Groups, i \in Identifiers :
              (g # lastMw'.group \/ i # lastMw'.ip) => pools'[g][i] = pools[g][i]]_vars

\* a request was handled while another router held a record of the same
\* identity and its own router held a record of another identity
C27_Witness ==
    /\ lastMw.group # "none"
    /\ \E g \in Groups \ {lastMw.group} : pools[g][lastMw.ip] # <<>>
    /\ \E i \in Identifiers \ {lastMw.ip} : pools[lastMw.group][i] # <<>>

(***************************************************************************)
(* The connection of a DiscordService instance and the operations that     *)
(* require it (services/discord.service.ts)                                *)
(***************************************************************************)
\* the instances followed
MaxServices == 2
\* the operations followed
MaxOps == 2

\* the operations that start with the isConnected() test
GuardedOperations == {"createChannel", "createCategory", "deleteChannel", "createRole",
                      "deleteRole", "createWebhook", "getGuildInfo", "getChannel",
                      "getGuild", "createComponentsV2Message"}
\* sendWebhookMessage posts to the webhook URL without the client
Operations == GuardedOperations \cup {"sendWebhookMessage"}

\* an instance as its constructor leaves it; phase is history
ConstructedService == [isReady |-> FALSE, clientReady |-> FALSE, phase |-> "new"]

\* an operation of a service: the error it throws ("" when it returns) and the
\* number of calls it made to the platform
operation(service, op, idValid, platformOk) ==
    IF op = "sendWebhookMessage"
    THEN [error |-> IF platformOk THEN "" ELSE "Webhook request failed", calls |-> 1]
    ELSE IF ~isConnected(service)
    THEN [error |-> "Discord client not connected", calls |-> 0]
    ELSE IF ~idValid
    THEN [error |-> "Invalid ID", calls |-> 0]
    ELSE [error |-> IF platformOk THEN "" ELSE "platform error", calls |-> 1]

\* what the services leave alone
connOthers == <<oldVars, sendVars, grpVars, downVars, bulkVars>>

\* new DiscordService(): in server.ts, and in every route handler
Construct ==
    /\ Len(services) < MaxServices
    /\ services' = Append(services, ConstructedService)
    /\ UNCHANGED <<lastOp, connOthers>>

\* login() is called: client.login(env.DISCORD_TOKEN) starts
LoginCall(i) ==
    /\ services[i].phase = "new"
    /\ services' = [services EXCEPT ![i].phase = "loggingIn"]
    /\ UNCHANGED <<lastOp, connOthers>>

\* client.login() rejects: login() logs and throws
LoginFails(i) ==
    /\ services[i].phase = "loggingIn"
    /\ services' = [services EXCEPT ![i].phase = "loginFailed"]
    /\ UNCHANGED <<lastOp, connOthers>>

\* the client is ready and emits 'ready': the once-handler of the constructor
\* sets isReady, and login() returns
ClientReadyEvent(i) ==
    /\ services[i].phase = "loggingIn"
    /\ services' = [services EXCEPT ![i].phase = "ready",
                                    ![i].clientReady = TRUE,
                                    ![i].isReady = TRUE]
    /\ UNCHANGED <<lastOp, connOthers>>

\* logout(): client.destroy() ends the connection of the client; isReady is
\* cleared when destroy() returned, and left as it is when destroy() threw
Logout(i, destroyed) ==
    /\ services[i].phase = "ready"
    /\ services' = [services EXCEPT ![i].phase = "loggedOut",
                                    ![i].clientReady = FALSE,
                                    ![i].isReady = IF destroyed THEN FALSE ELSE @]
    /\ UNCHANGED <<lastOp, connOthers>>

\* an operation is called on an instance
Operation(i, op, idValid, platformOk) ==
    /\ lastOp.seq < MaxOps
    /\ LET r == operation(services[i], op, idValid, platformOk)
       IN  lastOp' = [seq |-> lastOp.seq + 1, service |-> i, op |-> op,
                      wasReady |-> services[i].phase = "ready",
                      error |-> r.error, calls |-> r.calls]
    /\ UNCHANGED <<services, connOthers>>

InitServices ==
    /\ OldOff
    /\ SendOff
    /\ GrpOff
    /\ DownOff
    /\ BulkOff
    /\ services = <<>>
    /\ lastOp = NoOp

NextServices ==
    \/ Construct
    \/ \E i \in 1..Len(services) : LoginCall(i)
    \/ \E i \in 1..Len(services) : LoginFails(i)
    \/ \E i \in 1..Len(services) : ClientReadyEvent(i)
    \/ \E i \in 1..Len(services), destroyed \in BOOLEAN : Logout(i, destroyed)
    \/ \E i \in 1..Len(services), op \in Operations, idValid \in BOOLEAN,
          platformOk \in BOOLEAN : Operation(i, op, idValid, platformOk)

SpecServices == InitServices /\ [][NextServices]_vars

\* C28: an instance reports isConnected only between the ready event of its
\* own login and its logout, and an operation that needs the connection,
\* called on an instance outside that interval, fails with 'Discord client
\* not connected' and makes no call to the platform
C28_ConnectedOnlyWhenReady ==
    /\ \A i \in 1..Len(services) :
          isConnected(services[i]) => services[i].phase = "ready"
    /\ (lastOp.op \in GuardedOperations /\ ~lastOp.wasReady) =>
          /\ lastOp.error = "Discord client not connected"
          /\ lastOp.calls = 0

\* while one instance is connected, an operation called on another instance,
\* which never logged in, was refused
C28_Witness ==
    /\ lastOp.op = "createRole"
    /\ ~lastOp.wasReady
    /\ lastOp.error = "Discord client not connected"
    /\ services[lastOp.service].phase = "new"
    /\ \E i \in 1..Len(services) : isConnected(services[i])

(***************************************************************************)
(* Graceful shutdown (server.ts, both versions)                            *)
(***************************************************************************)
\* the connections open at once
MaxConns == 2
\* the delay of the force-close timer, in units of 10 s: 10000 ms and 30000 ms
ForceCloseFirst == 1
ForceCloseSecond == 3

\* the two versions of server.ts
Versions == {"first", "second"}
Signals == {"SIGTERM", "SIGINT"}

forceCloseDelay(version) ==
    IF version = "first" THEN ForceCloseFirst ELSE ForceCloseSecond

\* mutant: a logout that threw is passed over
afterLogoutIgnoreError(p, threw) ==
    [p EXCEPT !.pc = "closing", !.logoutThrew = threw, !.closeCalled = TRUE]

\* gracefulShutdown after the awaited logout(): the catch block exits with
\* code 1 when it threw; otherwise server.close(callback) is called and the
\* force-close timer is set
afterLogout(p, threw) ==
    IF threw
    THEN [p EXCEPT !.pc = "exited", !.logoutThrew = TRUE, !.exitCode = 1]
    ELSE [p EXCEPT !.pc = "closing", !.closeCalled = TRUE]

\* what the shutdown leaves alone
downOthers == <<oldVars, sendVars, grpVars, connVars, bulkVars>>

\* discordService.login() of the listen callback succeeds
ProcLoginOk ==
    /\ proc.pc = "running" /\ proc.login = "pending"
    /\ proc' = [proc EXCEPT !.login = "ready"]
    /\ UNCHANGED downOthers

\* it fails: the first version goes on without the platform, the second exits
ProcLoginFails ==
    /\ proc.pc = "running" /\ proc.login = "pending"
    /\ proc' = IF proc.version = "first"
               THEN [proc EXCEPT !.login = "failed"]
               ELSE [proc EXCEPT !.login = "failed", !.pc = "exited", !.exitCode = 1]
    /\ UNCHANGED downOthers

\* a client connects; the server accepts until server.close() is called
Connect ==
    /\ proc.pc \in {"running", "logout"}
    /\ proc.conns < MaxConns
    /\ proc' = [proc EXCEPT !.conns = @ + 1]
    /\ UNCHANGED downOthers

\* a connection ends
Disconnect ==
    /\ proc.pc \in {"running", "logout", "closing"}
    /\ proc.conns > 0
    /\ proc' = [proc EXCEPT !.conns = @ - 1]
    /\ UNCHANGED downOthers

\* SIGTERM or SIGINT: gracefulShutdown starts and awaits discordService.logout()
ShutdownSignal(signal) ==
    /\ proc.pc = "running"
    /\ proc' = [proc EXCEPT !.pc = "logout", !.signal = signal, !.logoutCalled = TRUE]
    /\ UNCHANGED downOthers

\* logout() settles
LogoutSettles(threw) ==
    /\ proc.pc = "logout"
    /\ proc' = afterLogout(proc, threw)
    /\ UNCHANGED downOthers

\* the last connection has ended: the callback of server.close() exits with 0
ServerClosed ==
    /\ proc.pc = "closing"
    /\ proc.conns = 0
    /\ proc' = [proc EXCEPT !.pc = "exited", !.serverClosed = TRUE, !.exitCode = 0]
    /\ UNCHANGED downOthers

\* ten seconds pass while the force-close timer runs
ShutdownWait ==
    /\ proc.pc = "closing"
    /\ proc.elapsed < forceCloseDelay(proc.version)
    /\ proc' = [proc EXCEPT !.elapsed = @ + 1]
    /\ UNCHANGED downOthers

\* the force-close timer fires: exit with 1
ForceClose ==
    /\ proc.pc = "closing"
    /\ proc.elapsed = forceCloseDelay(proc.version)
    /\ proc' = [proc EXCEPT !.pc = "exited", !.timerFired = TRUE, !.exitCode = 1]
    /\ UNCHANGED downOthers

InitShutdown ==
    /\ OldOff
    /\ SendOff
    /\ GrpOff
    /\ ConnOff
    /\ BulkOff
    /\ \E version \in Versions :
          proc = [NoProc EXCEPT !.version = version, !.login = "pending", !.pc = "running"]

NextShutdown ==
    \/ ProcLoginOk
    \/ ProcLoginFails
    \/ Connect
    \/ Disconnect
    \/ \E signal \in Signals : ShutdownSignal(signal)
    \/ \E threw \in BOOLEAN : LogoutSettles(threw)
    \/ ServerClosed
    \/ ShutdownWait
    \/ ForceClose

\* the awaited logout settles, the clock runs and the timer fires; that the
\* connections end is not assumed
SpecShutdown ==
    /\ InitShutdown
    /\ [][NextShutdown]_vars
    /\ WF_vars(\E threw \in BOOLEAN : LogoutSettles(threw))
    /\ WF_vars(ShutdownWait)
    /\ WF_vars(ForceClose)

\* the exit codes of a shutdown, and the logout before the close
ShutdownOutcome ==
    /\ proc.closeCalled => (proc.logoutCalled /\ ~proc.logoutThrew)
    /\ (proc.pc = "exited" /\ proc.signal # "none") =>
          /\ proc.exitCode = 0 <=> proc.serverClosed
          /\ proc.exitCode = 1 <=> (proc.logoutThrew \/ proc.timerFired)
          /\ proc.serverClosed => (proc.conns = 0 /\ ~proc.timerFired)
          /\ proc.timerFired => proc.elapsed = forceCloseDelay(proc.version)

MaxMixed == 3
\* roles.length > 10
MaxBulkRoles == 10

\* the entries of the roles array: an object with a name, an object without
\* one, and null
EntryKinds == {"named", "unnamed", "null"}

\* an array of n entries of one kind
Uniform(kind, n) == [k \in 1..n |-> kind]

\* the arrays of the requests: all arrays of up to MaxMixed entries, and the
\* arrays of named entries at the limit and one over it
RolesInputs ==
    UNION {[1..n -> EntryKinds] : n \in 0..MaxMixed}
        \cup {Uniform("named", MaxBulkRoles), Uniform("named", MaxBulkRoles + 1)}

GuildIds == {"missing", "invalid", "valid"}

\* what the bulk creation leaves alone
bulkOthers == <<oldVars, sendVars, grpVars, connVars, downVars>>

\* a request passed rateLimitMiddleware and verifySignature
BulkArrive(flag, guildId, roles) ==
    /\ bulk.pc = "idle"
    /\ bulk' = [NoBulk EXCEPT !.pc = "handler", !.flag = flag, !.guildId = guildId,
                              !.roles = roles]
    /\ UNCHANGED bulkOthers

\* the handler up to the loop: the feature flag and the two tests of the body
BulkValidate ==
    /\ bulk.pc = "handler"
    /\ bulk' =
         IF ~featureFlag("ENABLE_ROLE_MANAGEMENT", bulk.flag)
         THEN [bulk EXCEPT !.pc = "done", !.status = 403,
                           !.error = "Role management is disabled"]
         ELSE IF bulk.guildId = "missing" \/ Len(bulk.roles) = 0
         THEN [bulk EXCEPT !.pc = "done", !.status = 400,
                           !.error = "guildId and roles array are required"]
         ELSE IF Len(bulk.roles) > MaxBulkRoles
         THEN [bulk EXCEPT !.pc = "done", !.status = 400,
                           !.error = "Maximum 10 roles can be created at once"]
         ELSE [bulk EXCEPT !.pc = "loop"]
    /\ UNCHANGED bulkOthers

\* one round of the loop, on the instance made with new DiscordService():
\* the destructuring of null throws into the inner catch, whose log line
\* reads roleData.name and throws again, into the outer catch (500); an entry
\* without a name is passed over; createRole is awaited for the others, and
\* a role it returned is appended to createdRoles
BulkEntry(platformOk) ==
    /\ bulk.pc = "loop"
    /\ bulk.next <= Len(bulk.roles)
    /\ LET roleData == bulk.roles[bulk.next]
           r == operation(ConstructedService, "createRole", bulk.guildId = "valid",
                          platformOk)
       IN  bulk' =
             IF roleData = "null"
             THEN [bulk EXCEPT !.pc = "done", !.status = 500,
                               !.error = "Failed to create roles"]
             ELSE IF roleData = "unnamed"
             THEN [bulk EXCEPT !.next = @ + 1]
             ELSE [bulk EXCEPT !.next = @ + 1,
                               !.attempted = Append(@, bulk.next),
                               !.onPlatform = IF r.error = ""
                                              THEN Append(@, bulk.next) ELSE @,
                               !.createdRoles = IF r.error = ""
                                                THEN Append(@, bulk.next) ELSE @]
    /\ UNCHANGED bulkOthers

\* the loop is over: the response lists createdRoles
BulkRespond ==
    /\ bulk.pc = "loop"
    /\ bulk.next > Len(bulk.roles)
    /\ bulk' = [bulk EXCEPT !.pc = "done", !.status = 200]
    /\ UNCHANGED bulkOthers

\* the response has been sent; the next request can be followed
BulkDone ==
    /\ bulk.pc = "done"
    /\ bulk' = [NoBulk EXCEPT !.pc = "idle"]
    /\ UNCHANGED bulkOthers

InitBulk ==
    /\ OldOff
    /\ SendOff
    /\ GrpOff
    /\ ConnOff
    /\ DownOff
    /\ bulk = [NoBulk EXCEPT !.pc = "idle"]

NextBulk ==
    \/ \E flag \in FlagSettings, guildId \in GuildIds, roles \in RolesInputs :
          BulkArrive(flag, guildId, roles)
    \/ BulkValidate
    \/ \E platformOk \in BOOLEAN : BulkEntry(platformOk)
    \/ BulkRespond
    \/ BulkDone

SpecBulk == InitBulk /\ [][NextBulk]_vars

\* the indices of the entries of an array that have a name, in order
RECURSIVE namedFrom(_, _)
namedFrom(roles, k) ==
    IF k > Len(roles) THEN <<>>
    ELSE IF roles[k] = "named" THEN <<k>> \o namedFrom(roles, k + 1)
    ELSE namedFrom(roles, k + 1)

\* C30: with role management enabled and a guild named, a request with no
\* role or more than 10 is answered 400 and creates nothing; any other is
\* answered with the list of the roles created, in input order, every entry
\* with a name having been attempted in order, whatever the other entries are
C30_BulkCreate ==
    ( /\ bulk.pc = "done"
      /\ featureFlag("ENABLE_ROLE_MANAGEMENT", bulk.flag)
      /\ bulk.guildId # "missing" )
        => IF Len(bulk.roles) = 0 \/ Len(bulk.roles) > MaxBulkRoles
           THEN bulk.status = 400 /\ bulk.attempted = <<>> /\ bulk.onPlatform = <<>>
           ELSE /\ bulk.status = 200
                /\ bulk.attempted = namedFrom(bulk.roles, 1)
                /\ bulk.createdRoles = bulk.onPlatform

====
